---- MODULE Spec2Model ----
(***************************************************************************)
(* Transaction anomaly engine: RuleEngine (rule_engine.py) and             *)
(* AnomalyDetector (anomaly_detector.py).                                  *)
(*                                                                         *)
(* Conventions of the model:                                               *)
(*   - a timestamp is the instant it denotes, in whole seconds; Garbled    *)
(*     and Opaque stand for timestamp values that denote no instant;       *)
(*   - a reading of the wall clock (datetime.now()) is an instant too, an  *)
(*     input of every call that the code consults only when it has to;     *)
(*   - a raised exception is a record [raised |-> its class];              *)
(*   - an amount is a whole number of dollars;                             *)
(*   - a risk score is kept in tenths of a point (1000 = 100.0), so that   *)
(*     the weights 1.0, 0.7, 0.4, 0.2 (and the fallback 0.5) times 25 are  *)
(*     the integers 250, 175, 100, 50 (and 125);                           *)
(*   - a reason string is the tuple of the values it embeds;               *)
(*   - the quotient of two counts is the fraction [num, den] in lowest     *)
(*     terms, the real number that the float of the code approximates;     *)
(*   - a great-circle distance is in whole kilometres, the value of        *)
(*     _haversine_distance on the coordinates of country_coords, rounded.  *)
(***************************************************************************)
EXTENDS Integers, Sequences, FiniteSets, TLC

VARIABLES
    rules,                \* RuleEngine.rules
    transaction_history,  \* RuleEngine.transaction_history: account -> list of <<timestamp, amount>>
    account_history,      \* AnomalyDetector.account_history: account -> last transaction
    stats,                \* AnomalyDetector.stats
    detected_anomalies,   \* AnomalyDetector.detected_anomalies
    result,               \* the verdict returned by the last call that returned
    feed,                 \* the transactions the collaborator may submit
    knobs,                \* the update_rule calls the collaborator may make
    log,                  \* history: the transactions evaluated so far, in order
    last,                 \* history: the state the last returned call started from
    updates,              \* history: the number of update_rule calls made
    arg,                  \* the argument of a function applied on its own
    ret,                  \* what that function returned
    pc,                   \* per calling thread: where it is in process_transaction
    loc,                  \* per calling thread: its local variables
    detector_lock,        \* AnomalyDetector.lock: the thread holding it, or NoThread
    engine_lock,          \* RuleEngine.lock: the thread holding it, or NoThread
    completed,            \* history: the threads whose call returned, in that order
    versions,             \* history: every configuration the rule set has had
    runs                  \* history: the number of batch, stream and performance runs made

vars == <<rules, transaction_history, account_history, stats, detected_anomalies,
          result, feed, knobs, log, last, updates, arg, ret,
          pc, loc, detector_lock, engine_lock, completed, versions, runs>>

\* What the calling threads add to the state.
thread_vars == <<pc, loc, detector_lock, engine_lock, completed>>

----------------------------------------------------------------------------
(* Bounds of the model *)

\* process_transaction calls per behaviour
MaxCalls == 4

\* update_rule calls per behaviour
MaxUpdates == 1

\* anomaly records in a list given to _calculate_risk_score on its own
MaxAnomalies == 5

\* threads calling process_transaction concurrently
NThreads == 3

\* process_batch, stream_detection and evaluate_performance runs per behaviour
MaxRuns == 2

\* calls made to RuleEngine.evaluate_transaction itself per behaviour
MaxDirect == 3

----------------------------------------------------------------------------
(* RuleEngine.__init__ *)

\* Faulty variant: odd_hours is evaluated before rapid_transactions.
RuleOrderSwapped ==
    << "large_amount", "odd_hours", "rapid_transactions",
       "geographic_impossible", "suspicious_countries", "unusual_merchant" >>

\* The keys of self.rules in insertion order, the order items() yields them in.
RuleOrder ==
    << "large_amount", "rapid_transactions", "odd_hours",
       "geographic_impossible", "suspicious_countries", "unusual_merchant" >>

RuleNames == { RuleOrder[i] : i \in 1..Len(RuleOrder) }

DefaultRules ==
    [ large_amount |->
        [ threshold |-> 5000, enabled |-> TRUE,
          description |-> "Transactions above $5000" ],
      rapid_transactions |->
        [ threshold |-> 3, time_window |-> 300, enabled |-> TRUE,
          description |-> "3+ transactions in 5 minutes" ],
      odd_hours |->
        [ start_hour |-> 23, end_hour |-> 6, enabled |-> TRUE,
          description |-> "Transactions between 11 PM and 6 AM" ],
      geographic_impossible |->
        [ max_speed_kmh |-> 800, enabled |-> TRUE,
          description |-> "Impossible geographic travel" ],
      suspicious_countries |->
        [ countries |-> {"RU", "NG", "UA", "KP", "SY"}, enabled |-> TRUE,
          description |-> "Transactions from high-risk countries" ],
      unusual_merchant |->
        [ suspicious_merchants |-> {"DARK_WEB_STORE", "UNKNOWN_VENDOR", "TEST_MERCHANT"},
          enabled |-> TRUE,
          description |-> "Transactions with suspicious merchants" ] ]

\* The keys of country_coords.
KnownCountries ==
    {"US", "UK", "CA", "AU", "DE", "FR", "JP", "SG", "IN", "RU", "NG", "UA", "BR", "CN"}

Accounts == {"ACC001", "ACC002"}

None == [none |-> TRUE]

\* No thread holds the lock.
NoThread == 0

----------------------------------------------------------------------------
(* Pure helpers *)

Min(a, b) == IF a <= b THEN a ELSE b

Abs(x) == IF x < 0 THEN -x ELSE x

\* dict.get(key, default)
Get(d, k, default) == IF k \in DOMAIN d THEN d[k] ELSE default

\* LET v == value IN Then(v), the value being computed once however often
\* Then uses it.
Bind(value, Then(_)) == CHOOSE out \in { Then(v) : v \in {value} } : TRUE

RECURSIVE GCD(_, _)
GCD(a, b) == IF b = 0 THEN a ELSE GCD(b, a % b)

\* The fraction n / d, d > 0.
Ratio(n, d) == [num |-> n \div GCD(n, d), den |-> d \div GCD(n, d)]

\* The number 0, the value of the `else 0` branches.
Zero == [num |-> 0, den |-> 1]

\* a * b, a + b and a / b on fractions.
Times(a, b) == Ratio(a.num * b.num, a.den * b.den)

Plus(a, b) == Ratio(a.num * b.den + b.num * a.den, a.den * b.den)

Over(a, b) == Ratio(a.num * b.den, a.den * b.num)

\* dict.update(kwargs)
DictUpdate(d, kw) ==
    [ k \in (DOMAIN d) \cup (DOMAIN kw) |-> IF k \in DOMAIN kw THEN kw[k] ELSE d[k] ]

\* A str timestamp that is not in the format '%Y-%m-%d %H:%M:%S'.
Garbled == -1

\* A timestamp that is no str, Timestamp or datetime and that pd.to_datetime
\* cannot convert.
Opaque == -2

\* line 67: strptime raises ValueError, outside the try of lines 73-76.
Malformed(timestamp) == timestamp = Garbled

\* _parse_timestamp when it returns: the instant the timestamp denotes, or
\* the reading of the clock for a timestamp nothing can convert.
ParseTimestamp(timestamp, now) == IF timestamp = Opaque THEN now ELSE timestamp

\* The clock as one evaluation reads it, at most once per parsing site: in
\* check_rapid_transactions, in check_odd_hours, and for the current and the
\* previous transaction in check_geographic_impossible.
Clock(rapid, odd_hours, current, previous) ==
    [rapid |-> rapid, odd_hours |-> odd_hours, current |-> current, previous |-> previous]

\* An exception leaves a check.
Raise(exception) == [raised |-> exception]

Raised(r) == "raised" \in DOMAIN r

\* Faulty variant: the hours since the first midnight, not those of the day.
HoursSince(timestamp) == timestamp \div 3600

\* timestamp.hour
HourOf(timestamp) == (timestamp \div 3600) % 24

\* _haversine_distance between the coordinates of two known countries, in
\* whole km (R = 6371): 8886.089, 2261.544 and 6644.475 km. Tabulated for the
\* countries the feeds use (US, CA, RU); no other pair is ever asked for.
haversine_distance(c1, c2) ==
    LET pair == {c1, c2} IN
    CASE c1 = c2 -> 0
      [] pair = {"US", "RU"} -> 8886
      [] pair = {"US", "CA"} -> 2262
      [] pair = {"CA", "RU"} -> 6644

----------------------------------------------------------------------------
(* The rule checks.  Each returns [triggered, reason]; check_rapid_transactions
   also returns the account's list as it leaves it. *)

NotTriggered == [triggered |-> FALSE, reason |-> <<>>]

\* Faulty variant: an amount equal to the threshold triggers.
check_large_amount_inclusive(rs, transaction) ==
    LET threshold == rs["large_amount"].threshold IN
    IF transaction.amount >= threshold
    THEN [triggered |-> TRUE, reason |-> <<transaction.amount, threshold>>]
    ELSE NotTriggered

check_large_amount(rs, transaction) ==
    LET threshold == rs["large_amount"].threshold IN
    IF transaction.amount > threshold
    THEN [triggered |-> TRUE, reason |-> <<transaction.amount, threshold>>]
    ELSE NotTriggered

\* Faulty variant: nothing is pruned from the window.
PruneWindowKeepsAll(entries, cutoff) == entries

\* The list comprehension of lines 93-96: the entries newer than the cutoff.
PruneWindow(entries, cutoff) ==
    LET Newer(t) == t[1] > cutoff IN SelectSeq(entries, Newer)

\* len(...) >= threshold, line 101
RapidTriggered(count, threshold) == count >= threshold

\* Faulty variant: one window is kept for all the accounts.
check_rapid_transactions_shared(rs, history, transaction, clock) ==
    IF Malformed(transaction.timestamp) THEN Raise("ValueError")
    ELSE
    LET account        == transaction.account_id
        timestamp      == ParseTimestamp(transaction.timestamp, clock.rapid)
        window_seconds == rs["rapid_transactions"].time_window
        cutoff         == timestamp - window_seconds
        pruned         == PruneWindow(history[account], cutoff)
        appended       == Append(pruned, <<timestamp, transaction.amount>>)
        threshold      == rs["rapid_transactions"].threshold
    IN  [ triggered |-> RapidTriggered(Len(appended), threshold),
          reason    |-> IF RapidTriggered(Len(appended), threshold)
                        THEN <<Len(appended), window_seconds>> ELSE <<>>,
          history   |-> [ a \in DOMAIN history |-> appended ] ]

check_rapid_transactions(rs, history, transaction, clock) ==
    IF Malformed(transaction.timestamp) THEN Raise("ValueError")
    ELSE
    LET account        == transaction.account_id
        timestamp      == ParseTimestamp(transaction.timestamp, clock.rapid)
        window_seconds == rs["rapid_transactions"].time_window
        cutoff         == timestamp - window_seconds
        pruned         == PruneWindow(history[account], cutoff)
        appended       == Append(pruned, <<timestamp, transaction.amount>>)
        threshold      == rs["rapid_transactions"].threshold
    IN  [ triggered |-> RapidTriggered(Len(appended), threshold),
          reason    |-> IF RapidTriggered(Len(appended), threshold)
                        THEN <<Len(appended), window_seconds>> ELSE <<>>,
          history   |-> [history EXCEPT ![account] = appended] ]

check_odd_hours(rs, transaction, clock) ==
    IF Malformed(transaction.timestamp) THEN Raise("ValueError")
    ELSE
    LET hour  == HourOf(ParseTimestamp(transaction.timestamp, clock.odd_hours))
        start == rs["odd_hours"].start_hour
        end   == rs["odd_hours"].end_hour
    IN  IF start <= 23 /\ hour >= start
        THEN [triggered |-> TRUE, reason |-> <<hour>>]
        ELSE IF end >= 0 /\ hour <= end
        THEN [triggered |-> TRUE, reason |-> <<hour>>]
        ELSE NotTriggered

\* speed_kmh > max_speed with speed_kmh = distance_km / time_diff_hours, the
\* elapsed time being in seconds: km / (s / 3600) > max  <=>  km * 3600 > max * s.
SpeedExceeds(distance_km, seconds, max_speed) == distance_km * 3600 > max_speed * seconds

\* Faulty variant: the elapsed time keeps its sign.
TimeDiffSigned(current_time, previous_time) == current_time - previous_time

\* abs((current_time - previous_time).total_seconds() / 3600), in seconds
TimeDiff(current_time, previous_time) == Abs(current_time - previous_time)

check_geographic_impossible(rs, transaction, previous_transaction, clock) ==
    IF previous_transaction = None THEN NotTriggered
    ELSE IF "country" \notin DOMAIN transaction
            \/ "country" \notin DOMAIN previous_transaction
    THEN Raise("KeyError")
    ELSE
    LET current_country  == transaction.country
        previous_country == previous_transaction.country
    IN  IF current_country \notin KnownCountries \/ previous_country \notin KnownCountries
        THEN NotTriggered
        ELSE IF Malformed(transaction.timestamp)
                \/ Malformed(previous_transaction.timestamp)
        THEN Raise("ValueError")
        ELSE
        LET current_time  == ParseTimestamp(transaction.timestamp, clock.current)
            previous_time == ParseTimestamp(previous_transaction.timestamp, clock.previous)
            time_diff     == TimeDiff(current_time, previous_time)
        IN  IF time_diff = 0 THEN NotTriggered
            ELSE
            LET distance  == haversine_distance(previous_country, current_country)
                max_speed == rs["geographic_impossible"].max_speed_kmh
            IN  IF SpeedExceeds(distance, time_diff, max_speed)
                THEN [ triggered |-> TRUE,
                       \* f"{speed_kmh:.0f}": the speed in whole km/h
                       reason |-> <<(distance * 7200 + time_diff) \div (2 * time_diff)>> ]
                ELSE NotTriggered

check_suspicious_country(rs, transaction) ==
    IF "country" \notin DOMAIN transaction THEN Raise("KeyError")
    ELSE
    LET country == transaction.country IN
    IF country \in rs["suspicious_countries"].countries
    THEN [triggered |-> TRUE, reason |-> <<country>>]
    ELSE NotTriggered

check_unusual_merchant(rs, transaction) ==
    LET merchant == Get(transaction, "merchant", "") IN
    IF merchant \in rs["unusual_merchant"].suspicious_merchants
    THEN [triggered |-> TRUE, reason |-> <<merchant>>]
    ELSE NotTriggered

----------------------------------------------------------------------------
(* Severity and risk score *)

\* Faulty variant: the rules without a severity of their own rate LOW.
calculate_severity_low(rule_name, transaction) ==
    IF rule_name = "large_amount"
    THEN IF transaction.amount > 20000 THEN "CRITICAL"
         ELSE IF transaction.amount > 10000 THEN "HIGH"
         ELSE "MEDIUM"
    ELSE IF rule_name = "suspicious_countries" THEN "HIGH"
    ELSE IF rule_name = "unusual_merchant" THEN "CRITICAL"
    ELSE IF rule_name = "geographic_impossible" THEN "HIGH"
    ELSE "LOW"

calculate_severity(rule_name, transaction) ==
    IF rule_name = "large_amount"
    THEN IF transaction.amount > 20000 THEN "CRITICAL"
         ELSE IF transaction.amount > 10000 THEN "HIGH"
         ELSE "MEDIUM"
    ELSE IF rule_name = "suspicious_countries" THEN "HIGH"
    ELSE IF rule_name = "unusual_merchant" THEN "CRITICAL"
    ELSE IF rule_name = "geographic_impossible" THEN "HIGH"
    ELSE "MEDIUM"

\* Faulty variant: HIGH weighs 0.8.
SeverityPointsHeavyHigh(severity) ==
    CASE severity = "CRITICAL" -> 250
      [] severity = "HIGH"     -> 200
      [] severity = "MEDIUM"   -> 100
      [] severity = "LOW"      -> 50
      [] OTHER                 -> 125

\* Faulty variant: MEDIUM carries no weight.
SeverityPointsNoMedium(severity) ==
    CASE severity = "CRITICAL" -> 250
      [] severity = "HIGH"     -> 175
      [] severity = "LOW"      -> 50
      [] OTHER                 -> 0

\* severity_weights.get(severity, 0.5) * 25, in tenths of a point
SeverityPoints(severity) ==
    CASE severity = "CRITICAL" -> 250
      [] severity = "HIGH"     -> 175
      [] severity = "MEDIUM"   -> 100
      [] severity = "LOW"      -> 50
      [] OTHER                 -> 125

\* Faulty variant: the total is not capped.
CapScoreMissing(total_score) == total_score

\* min(total_score, 100), in tenths of a point
CapScore(total_score) == Min(total_score, 1000)

RECURSIVE TotalScore(_)
TotalScore(anomalies) ==
    IF anomalies = <<>> THEN 0
    ELSE SeverityPoints(Head(anomalies).severity) + TotalScore(Tail(anomalies))

calculate_risk_score(anomalies) ==
    IF anomalies = <<>> THEN 0 ELSE CapScore(TotalScore(anomalies))

----------------------------------------------------------------------------
(* RuleEngine.evaluate_transaction *)

\* The if/elif chain of lines 196-209.
Dispatch(rule_name, rs, history, transaction, previous_transaction, clock) ==
    LET keep(r) == r @@ [history |-> history] IN
    CASE rule_name = "large_amount" -> keep(check_large_amount(rs, transaction))
      [] rule_name = "rapid_transactions" ->
            keep(check_rapid_transactions(rs, history, transaction, clock))
      [] rule_name = "odd_hours" -> keep(check_odd_hours(rs, transaction, clock))
      [] rule_name = "geographic_impossible" ->
            keep(check_geographic_impossible(rs, transaction, previous_transaction, clock))
      [] rule_name = "suspicious_countries" ->
            keep(check_suspicious_country(rs, transaction))
      [] rule_name = "unusual_merchant" -> keep(check_unusual_merchant(rs, transaction))
      [] OTHER -> keep(NotTriggered)

\* Faulty variant: the enabled flag is ignored.
RuleSkippedNever(rule_config) == FALSE

\* if not rule_config['enabled']: continue
RuleSkipped(rule_config) == ~ rule_config.enabled

AnomalyRecord(rule_name, rule_config, reason, transaction) ==
    [ rule        |-> rule_name,
      description |-> rule_config.description,
      reason      |-> reason,
      severity    |-> calculate_severity(rule_name, transaction) ]

\* No exception has left the loop.
NoException == "none"

\* One iteration of the loop of line 189 on the accumulator
\* [anomalies, triggered_rules, history, raised]; an exception ends the loop.
EvalRule(rule_name, rs, acc, transaction, previous_transaction, clock) ==
    IF acc.raised # NoException THEN acc
    ELSE IF RuleSkipped(rs[rule_name]) THEN acc
    ELSE
    LET r == Dispatch(rule_name, rs, acc.history, transaction, previous_transaction, clock) IN
    IF Raised(r) THEN [acc EXCEPT !.raised = r.raised]
    ELSE IF r.triggered
    THEN [ anomalies       |-> Append(acc.anomalies,
                                  AnomalyRecord(rule_name, rs[rule_name], r.reason, transaction)),
           triggered_rules |-> Append(acc.triggered_rules, rule_name),
           history         |-> r.history,
           raised          |-> NoException ]
    ELSE [acc EXCEPT !.history = r.history]

RECURSIVE EvalRules(_, _, _, _, _, _)
EvalRules(i, rs, acc, transaction, previous_transaction, clock) ==
    IF i > Len(RuleOrder) THEN acc
    ELSE EvalRules(i + 1, rs,
                   EvalRule(RuleOrder[i], rs, acc, transaction, previous_transaction, clock),
                   transaction, previous_transaction, clock)

\* The dict of lines 220-230.
Verdict(transaction, anomalies, triggered_rules) ==
    [ transaction_id  |-> transaction.transaction_id,
      timestamp       |-> transaction.timestamp,
      account_id      |-> transaction.account_id,
      amount          |-> transaction.amount,
      is_anomalous    |-> Len(anomalies) > 0,
      anomaly_count   |-> Len(anomalies),
      anomalies       |-> anomalies,
      triggered_rules |-> triggered_rules,
      risk_score      |-> calculate_risk_score(anomalies) ]

\* Returns [result, history]: the verdict, or the exception that left the
\* call, and transaction_history as the call leaves it.
evaluate_transaction(rs, history, transaction, previous_transaction, clock) ==
    LET acc == EvalRules(1, rs,
                         [ anomalies |-> <<>>, triggered_rules |-> <<>>,
                           history |-> history, raised |-> NoException ],
                         transaction, previous_transaction, clock)
    IN  [ result  |-> IF acc.raised # NoException THEN Raise(acc.raised)
                      ELSE Verdict(transaction, acc.anomalies, acc.triggered_rules),
          history |-> acc.history ]

----------------------------------------------------------------------------
(* AnomalyDetector *)

InitialStats ==
    [ total_transactions     |-> 0,
      anomalous_transactions |-> 0,
      false_positives        |-> 0,
      false_negatives        |-> 0,
      rules_triggered        |-> <<>> ]

\* Faulty variant: only the first rule of a verdict is counted.
CountTriggersFirst(rules_triggered, triggered_rules) ==
    IF triggered_rules = <<>> THEN rules_triggered
    ELSE LET rule == Head(triggered_rules) IN
         DictUpdate(rules_triggered, rule :> (Get(rules_triggered, rule, 0) + 1))

\* The loop of lines 40-41.
RECURSIVE CountTriggers(_, _)
CountTriggers(rules_triggered, triggered_rules) ==
    IF triggered_rules = <<>> THEN rules_triggered
    ELSE LET rule == Head(triggered_rules) IN
         CountTriggers(DictUpdate(rules_triggered,
                                  rule :> (Get(rules_triggered, rule, 0) + 1)),
                       Tail(triggered_rules))

\* The engine and detector state as one record.
EngineState ==
    [ rules               |-> rules,
      transaction_history |-> transaction_history,
      account_history     |-> account_history,
      stats               |-> stats,
      detected_anomalies  |-> detected_anomalies ]

\* The engine as constructed.
FreshEngine ==
    [ rules               |-> DefaultRules,
      transaction_history |-> [a \in Accounts |-> <<>>],
      account_history     |-> <<>>,
      stats               |-> InitialStats,
      detected_anomalies  |-> <<>> ]

\* Faulty variant: the first transaction of an account stays its previous one.
RememberFirst(history, account, transaction) ==
    IF account \in DOMAIN history THEN history
    ELSE DictUpdate(history, account :> transaction)

\* self.account_history[account] = transaction, line 34.
Remember(history, account, transaction) ==
    DictUpdate(history, account :> transaction)

\* process_transaction from state s: the state it leaves, with the verdict
\* it returns in field result.  An exception of line 32 leaves the call with
\* the transaction counted and lines 34-41 not run.
process_transaction(s, transaction, clock) ==
    LET counted  == [s.stats EXCEPT !.total_transactions = @ + 1]
        account  == transaction.account_id
        previous == Get(s.account_history, account, None)
        ev       == evaluate_transaction(s.rules, s.transaction_history, transaction,
                                         previous, clock)
        res      == ev.result
    IN  IF Raised(res)
        THEN [ rules               |-> s.rules,
               transaction_history |-> ev.history,
               account_history     |-> s.account_history,
               stats               |-> counted,
               detected_anomalies  |-> s.detected_anomalies,
               result              |-> res ]
        ELSE
        [ rules               |-> s.rules,
          transaction_history |-> ev.history,
          account_history     |-> Remember(s.account_history, account, transaction),
          stats               |->
              IF res.is_anomalous
              THEN [counted EXCEPT
                      !.anomalous_transactions = @ + 1,
                      !.rules_triggered = CountTriggers(@, res.triggered_rules)]
              ELSE counted,
          detected_anomalies  |->
              IF res.is_anomalous THEN Append(s.detected_anomalies, res)
              ELSE s.detected_anomalies,
          result              |-> res ]

\* The engine state a call leaves, without what it returned.
StateOf(n) ==
    [ rules               |-> n.rules,
      transaction_history |-> n.transaction_history,
      account_history     |-> n.account_history,
      stats               |-> n.stats,
      detected_anomalies  |-> n.detected_anomalies ]

\* The loop of process_batch, lines 50-51: clocks[i] is what the clock reads
\* during the i-th call.  An exception of a call leaves the loop, and the
\* function, with the results gathered so far dropped.
RECURSIVE BatchLoop(_, _, _, _)
BatchLoop(s, transactions, clocks, results) ==
    IF transactions = <<>>
    THEN [state |-> s, results |-> results, raised |-> NoException, evaluated |-> Len(results)]
    ELSE LET Rest(n) ==
                 IF Raised(n.result)
                 THEN [ state |-> StateOf(n), results |-> <<>>, raised |-> n.result.raised,
                        evaluated |-> Len(results) ]
                 ELSE BatchLoop(StateOf(n), Tail(transactions), Tail(clocks),
                                Append(results, n.result))
         IN  Bind(process_transaction(s, Head(transactions), Head(clocks)), Rest)

\* process_batch from state s: the state it leaves, the list it returns or
\* the exception that leaves it, and the number of calls that returned.
process_batch(s, transactions, clocks) == BatchLoop(s, transactions, clocks, <<>>)

\* Where a KeyboardInterrupt may find process_transaction: after line 27, or
\* after line 32, the with block being left at once.
InterruptPoints == {"counted", "evaluated"}

\* process_transaction cut short by a KeyboardInterrupt at one of these points.
interrupted_process_transaction(s, transaction, clock, at) ==
    LET counted  == [s.stats EXCEPT !.total_transactions = @ + 1]
        previous == Get(s.account_history, transaction.account_id, None)
        ev       == evaluate_transaction(s.rules, s.transaction_history, transaction,
                                         previous, clock)
    IN  IF at = "counted"
        THEN [s EXCEPT !.stats = counted]
        ELSE [s EXCEPT !.stats = counted, !.transaction_history = ev.history]

\* The loop of stream_detection, lines 73-79, k calls having returned.  The
\* interrupt, if any, is [after, at]: it arrives during the sleep of line 79
\* (at = "sleep") once `after` calls have returned, or inside the next call.
\* Lines 81-83 catch it; any other exception leaves the function.
RECURSIVE StreamLoop(_, _, _, _, _)
StreamLoop(s, transaction_stream, clocks, interrupt, k) ==
    IF transaction_stream = <<>>
    THEN [state |-> s, raised |-> NoException, interrupted |-> FALSE, evaluated |-> k]
    ELSE IF interrupt # None /\ interrupt.after = k /\ interrupt.at = "sleep"
    THEN [state |-> s, raised |-> NoException, interrupted |-> TRUE, evaluated |-> k]
    ELSE
    LET Rest(n) ==
            IF interrupt # None /\ interrupt.after = k
                   /\ (interrupt.at = "counted" \/ ~ Raised(n.result))
            THEN [ state |-> interrupted_process_transaction(s, Head(transaction_stream),
                                                             Head(clocks), interrupt.at),
                   raised |-> NoException, interrupted |-> TRUE, evaluated |-> k ]
            ELSE IF Raised(n.result)
            THEN [ state |-> StateOf(n), raised |-> n.result.raised,
                   interrupted |-> FALSE, evaluated |-> k ]
            ELSE StreamLoop(StateOf(n), Tail(transaction_stream), Tail(clocks),
                            interrupt, k + 1)
    IN  Bind(process_transaction(s, Head(transaction_stream), Head(clocks)), Rest)

stream_detection(s, transaction_stream, clocks, interrupt) ==
    StreamLoop(s, transaction_stream, clocks, interrupt, 0)

\* The loop of evaluate_performance, lines 165-177, on the counts
\* [true_positives, false_positives, false_negatives].
RECURSIVE PerformanceLoop(_, _, _, _)
PerformanceLoop(s, ground_truth, clocks, counts) ==
    IF ground_truth = <<>>
    THEN [state |-> s, raised |-> NoException, performance |-> counts]
    ELSE
    LET transaction  == Head(ground_truth)
        actual_fraud == Get(transaction, "is_fraudulent", FALSE)
        Rest(n) ==
            LET detected_fraud == n.result.is_anomalous IN
            IF Raised(n.result)
            THEN [state |-> StateOf(n), raised |-> n.result.raised, performance |-> None]
            ELSE PerformanceLoop(StateOf(n), Tail(ground_truth), Tail(clocks),
                     IF actual_fraud /\ detected_fraud
                     THEN [counts EXCEPT !.true_positives = @ + 1]
                     ELSE IF ~ actual_fraud /\ detected_fraud
                     THEN [counts EXCEPT !.false_positives = @ + 1]
                     ELSE IF actual_fraud /\ ~ detected_fraud
                     THEN [counts EXCEPT !.false_negatives = @ + 1]
                     ELSE counts)
    IN  Bind(process_transaction(s, transaction, Head(clocks)), Rest)

\* Line 179.
precision(true_positives, false_positives) ==
    IF true_positives + false_positives > 0
    THEN Ratio(true_positives, true_positives + false_positives)
    ELSE Zero

\* Line 180.
recall(true_positives, false_negatives) ==
    IF true_positives + false_negatives > 0
    THEN Ratio(true_positives, true_positives + false_negatives)
    ELSE Zero

\* Faulty variant: the product is not doubled.
f1_score_undoubled(p, r) ==
    IF Plus(p, r).num > 0 THEN Over(Times(p, r), Plus(p, r)) ELSE Zero

\* Line 181.
f1_score(p, r) ==
    IF Plus(p, r).num > 0
    THEN Over(Times(Ratio(2, 1), Times(p, r)), Plus(p, r))
    ELSE Zero

\* The dict of lines 183-190.
Performance(counts) ==
    LET p == precision(counts.true_positives, counts.false_positives)
        r == recall(counts.true_positives, counts.false_negatives)
    IN  counts @@ [precision |-> p, recall |-> r, f1_score |-> f1_score(p, r)]

\* evaluate_performance from state s: the state it leaves and the
\* performance it returns, or the exception that leaves it.
evaluate_performance(s, ground_truth, clocks) ==
    LET Assign(r) ==
            IF r.raised # NoException THEN r
            ELSE [r EXCEPT !.state.stats.false_positives = r.performance.false_positives,
                           !.state.stats.false_negatives = r.performance.false_negatives,
                           !.performance = Performance(@)]
    IN  Bind(PerformanceLoop(s, ground_truth, clocks,
                 [true_positives |-> 0, false_positives |-> 0, false_negatives |-> 0]),
             Assign)

\* What update_rule prints, lines 278 and 280: its only report to the caller.
update_rule_printed(rs, rule_name) ==
    IF rule_name \in DOMAIN rs
    THEN <<"Updated rule", rule_name>>
    ELSE <<"Rule not found", rule_name>>

\* Faulty variant: an unknown rule id gets a rule of its own.
update_rule_creating(rs, rule_name, kwargs) ==
    [ r \in (DOMAIN rs) \cup {rule_name} |->
        IF r = rule_name
        THEN (IF r \in DOMAIN rs THEN DictUpdate(rs[r], kwargs) ELSE kwargs)
        ELSE rs[r] ]

\* update_rule on the rule set rs.
update_rule(rs, rule_name, kwargs) ==
    IF rule_name \in DOMAIN rs
    THEN [rs EXCEPT ![rule_name] = DictUpdate(@, kwargs)]
    ELSE rs

----------------------------------------------------------------------------
(* The collaborator: what it submits and how it configures the rules *)

Noon == 12 * 3600

Hour == 3600

\* Three in the morning, an odd hour under the default rule.
Night == 3 * Hour

\* What the clock may read during one evaluation: noon throughout, night
\* throughout, or noon with a later reading at the last site.
Clocks ==
    { Clock(Noon, Noon, Noon, Noon),
      Clock(Night, Night, Night, Night),
      Clock(Noon, Noon, Noon, Noon + 1) }

\* A call of the run may fall back on the clock: a timestamp nothing can
\* convert is in the list or is an account's previous transaction.
ReadsClock(transactions) ==
    \/ \E i \in 1..Len(transactions) : transactions[i].timestamp = Opaque
    \/ \E a \in DOMAIN account_history : account_history[a].timestamp = Opaque

\* What the clock reads during each call of a run; when no call consults it,
\* one reading stands for all.
ClocksFor(transactions) ==
    IF ReadsClock(transactions)
    THEN [ 1..Len(transactions) -> Clocks ]
    ELSE { [ i \in 1..Len(transactions) |-> Clock(Noon, Noon, Noon, Noon) ] }

Tx(timestamp, account, amount, merchant, country) ==
    [ timestamp |-> timestamp, account_id |-> account, amount |-> amount,
      merchant |-> merchant, country |-> country ]

\* One account's bursts, with a second account beside it.
FeedRapid ==
    { Tx(Noon + d, "ACC001", 50, "BANK", "US") : d \in {0, 100, 200, 250, 1000} }
        \cup { Tx(Noon + 100, "ACC002", 50, "BANK", "US") }

\* Bursts while the rapid_transactions rule is reconfigured.
FeedWindow ==
    { Tx(Noon + d, "ACC001", 50, "BANK", "US") : d \in {0, 100, 200} }

KnobsWindow ==
    { <<"rapid_transactions", [enabled |-> FALSE]>>,
      <<"rapid_transactions", [enabled |-> TRUE]>>,
      <<"rapid_transactions", [threshold |-> 2, time_window |-> 150]>> }

\* Travel between countries; KP is in no coordinate table.
FeedGeo ==
    { Tx(Noon, "ACC001", 50, "BANK", "US"),
      Tx(Noon, "ACC001", 50, "BANK", "RU"),
      Tx(Noon + Hour, "ACC001", 50, "BANK", "RU"),
      Tx(Noon + 30 * Hour, "ACC001", 50, "BANK", "RU"),
      Tx(Noon + Hour, "ACC001", 50, "BANK", "KP"),
      Tx(Noon + 3 * Hour, "ACC002", 50, "BANK", "CA") }

KnobsGeo ==
    { <<"geographic_impossible", [max_speed_kmh |-> 9000]>>,
      <<"geographic_impossible", [enabled |-> FALSE]>> }

\* Transactions that trip several rules at once, any one rule switched off.
FeedMixed ==
    { Tx(Noon, "ACC001", 50, "BANK", "US"),
      Tx(3 * Hour, "ACC001", 25000, "DARK_WEB_STORE", "RU"),
      Tx(Noon + 100, "ACC001", 15000, "TEST_MERCHANT", "US") }

KnobsMixed == { <<r, [enabled |-> FALSE]>> : r \in RuleNames }

\* Two transactions, and reconfigurations that name no rule of the set.
FeedFew ==
    { Tx(Noon, "ACC001", 6000, "BANK", "US"),
      Tx(Night, "ACC002", 50, "BANK", "RU") }

KnobsUnknown ==
    { <<"no_such_rule", [enabled |-> FALSE]>>,
      <<"velocity", [threshold |-> 1, enabled |-> TRUE]>>,
      <<"large_amount", [threshold |-> 10000]>> }

Scenarios ==
    { [feed |-> FeedFew,    knobs |-> KnobsUnknown],
      [feed |-> FeedRapid,  knobs |-> {}],
      [feed |-> FeedWindow, knobs |-> KnobsWindow],
      [feed |-> FeedGeo,    knobs |-> KnobsGeo],
      [feed |-> FeedMixed,  knobs |-> KnobsMixed] }

----------------------------------------------------------------------------
(* The sequential engine: one caller *)

Init ==
    /\ rules = DefaultRules
    /\ transaction_history = [a \in Accounts |-> <<>>]
    /\ account_history = <<>>
    /\ stats = InitialStats
    /\ detected_anomalies = <<>>
    /\ result = None
    /\ \E sc \in Scenarios : feed = sc.feed /\ knobs = sc.knobs
    /\ log = <<>>
    /\ last = [op |-> "init"]
    /\ updates = 0
    /\ arg = None
    /\ ret = None
    /\ pc = <<>>
    /\ loc = <<>>
    /\ detector_lock = NoThread
    /\ engine_lock = NoThread
    /\ completed = <<>>
    /\ versions = <<DefaultRules>>
    /\ runs = 0

\* The collaborator submits one transaction; its id is its arrival number.
ProcessTransaction ==
    /\ stats.total_transactions < MaxCalls
    /\ \E t \in feed : \E clocks \in ClocksFor(<<t>>) :
         LET transaction == [ transaction_id |-> stats.total_transactions + 1 ] @@ t
             s == process_transaction(EngineState, transaction, clocks[1])
         IN  /\ transaction_history' = s.transaction_history
             /\ account_history' = s.account_history
             /\ stats' = s.stats
             /\ detected_anomalies' = s.detected_anomalies
             /\ result' = s.result
             /\ log' = Append(log, transaction)
             /\ last' = [op |-> "process_transaction", transaction |-> transaction,
                         pre |-> EngineState]
    /\ UNCHANGED <<rules, feed, knobs, updates, arg, ret, thread_vars, versions, runs>>

UpdateRule ==
    /\ updates < MaxUpdates
    /\ \E k \in knobs :
         /\ rules' = update_rule(rules, k[1], k[2])
         /\ versions' = Append(versions, update_rule(rules, k[1], k[2]))
         /\ last' = [op |-> "update_rule", rule_name |-> k[1], kwargs |-> k[2],
                     pre |-> EngineState,
                     printed |-> update_rule_printed(rules, k[1])]
    /\ updates' = updates + 1
    /\ UNCHANGED <<transaction_history, account_history, stats, detected_anomalies,
                   result, feed, knobs, log, arg, ret, thread_vars, runs>>

Next == ProcessTransaction \/ UpdateRule

Spec == Init /\ [][Next]_vars

----------------------------------------------------------------------------
(* _calculate_risk_score applied on its own to a list of anomaly records *)

Severities == {"CRITICAL", "HIGH", "MEDIUM", "LOW"}

\* Records of the four severities, and of one the weight table does not list.
AnomalyInputs == [ rule : {"large_amount"}, severity : Severities \cup {"UNKNOWN"} ]

RECURSIVE ListsUpTo(_, _)
ListsUpTo(S, n) ==
    IF n = 0 THEN { <<>> }
    ELSE LET shorter == ListsUpTo(S, n - 1) IN
         shorter \cup { Append(l, x) : l \in { k \in shorter : Len(k) = n - 1 }, x \in S }

InitScore ==
    /\ rules = DefaultRules
    /\ transaction_history = [a \in Accounts |-> <<>>]
    /\ account_history = <<>>
    /\ stats = InitialStats
    /\ detected_anomalies = <<>>
    /\ result = None
    /\ feed = {}
    /\ knobs = {}
    /\ log = <<>>
    /\ last = [op |-> "init"]
    /\ updates = 0
    /\ arg \in ListsUpTo(AnomalyInputs, MaxAnomalies)
    /\ ret = None
    /\ pc = <<>>
    /\ loc = <<>>
    /\ detector_lock = NoThread
    /\ engine_lock = NoThread
    /\ completed = <<>>
    /\ versions = <<DefaultRules>>
    /\ runs = 0

CalculateRiskScore ==
    /\ ret = None
    /\ ret' = [value |-> calculate_risk_score(arg)]
    /\ UNCHANGED <<rules, transaction_history, account_history, stats,
                   detected_anomalies, result, feed, knobs, log, last, updates, arg,
                   thread_vars, versions, runs>>

NextScore == CalculateRiskScore

SpecScore == InitScore /\ [][NextScore]_vars

----------------------------------------------------------------------------
(* One transaction evaluated on an engine as constructed, the rules having
   been configured beforehand: amounts around the tiers of large_amount, every
   hour of two days, and several odd_hours configurations. *)

Day == 24 * Hour

Amounts == {4999, 5000, 5001, 10000, 10001, 20000, 20001}

\* (start_hour, end_hour): the default, a shifted night, office hours, and a
\* pair outside 0..23.
OddHoursKnobs ==
    { [start_hour |-> 23, end_hour |-> 6],
      [start_hour |-> 22, end_hour |-> 5],
      [start_hour |-> 9,  end_hour |-> 17],
      [start_hour |-> 24, end_hour |-> -1],
      [enabled |-> FALSE] }

InitEval ==
    /\ \E k \in OddHoursKnobs : rules = update_rule(DefaultRules, "odd_hours", k)
    /\ transaction_history = [a \in Accounts |-> <<>>]
    /\ account_history = <<>>
    /\ stats = InitialStats
    /\ detected_anomalies = <<>>
    /\ result = None
    /\ feed = {}
    /\ knobs = {}
    /\ log = <<>>
    /\ last = [op |-> "init"]
    /\ updates = 0
    /\ \E d \in {0, 1}, h \in 0..23, m \in {0, Hour - 1}, amount \in Amounts :
         arg = [ hour        |-> h,
                 transaction |-> [transaction_id |-> 1]
                                 @@ Tx(d * Day + h * Hour + m, "ACC001", amount, "BANK", "US") ]
    /\ ret = None
    /\ pc = <<>>
    /\ loc = <<>>
    /\ detector_lock = NoThread
    /\ engine_lock = NoThread
    /\ completed = <<>>
    /\ versions = <<DefaultRules>>
    /\ runs = 0

Evaluate ==
    /\ result = None
    /\ \E clock \in Clocks :
         LET s == process_transaction(EngineState, arg.transaction, clock)
         IN  /\ transaction_history' = s.transaction_history
             /\ account_history' = s.account_history
             /\ stats' = s.stats
             /\ detected_anomalies' = s.detected_anomalies
             /\ result' = s.result
    /\ UNCHANGED <<rules, feed, knobs, log, last, updates, arg, ret, thread_vars, versions,
                   runs>>

NextEval == Evaluate

SpecEval == InitEval /\ [][NextEval]_vars

----------------------------------------------------------------------------
(* RuleEngine.evaluate_transaction called by itself, without a detector, again
   and again with the same transaction and the same previous transaction. *)

DirectRules ==
    { DefaultRules,
      update_rule(DefaultRules, "rapid_transactions", [enabled |-> FALSE]),
      update_rule(DefaultRules, "rapid_transactions", [threshold |-> 2]) }

DirectTransactions ==
    { [transaction_id |-> 1] @@ Tx(timestamp, "ACC001", amount, merchant, country) :
        timestamp \in {Noon, Night}, amount \in {50, 6000},
        merchant \in {"BANK", "TEST_MERCHANT"}, country \in {"US", "RU"} }

DirectPrevious == { None, Tx(Noon - 100, "ACC001", 50, "BANK", "US") }

InitDirect ==
    /\ rules \in DirectRules
    /\ transaction_history = [a \in Accounts |-> <<>>]
    /\ account_history = <<>>
    /\ stats = InitialStats
    /\ detected_anomalies = <<>>
    /\ result = None
    /\ feed = {}
    /\ knobs = {}
    /\ log = <<>>
    /\ last = [op |-> "init"]
    /\ updates = 0
    /\ arg \in [ transaction : DirectTransactions, previous_transaction : DirectPrevious ]
    /\ ret = <<>>
    /\ pc = <<>>
    /\ loc = <<>>
    /\ detector_lock = NoThread
    /\ engine_lock = NoThread
    /\ completed = <<>>
    /\ versions = <<DefaultRules>>
    /\ runs = 0

\* One call of evaluate_transaction; ret gathers the verdicts returned.
EvaluateTransaction ==
    /\ Len(ret) < MaxDirect
    /\ \E clocks \in ClocksFor(<<arg.transaction>>) :
         \E ev \in {evaluate_transaction(rules, transaction_history, arg.transaction,
                                         arg.previous_transaction, clocks[1])} :
             /\ transaction_history' = ev.history
             /\ ret' = Append(ret, ev.result)
             /\ last' = [op |-> "evaluate_transaction", pre |-> EngineState]
    /\ UNCHANGED <<rules, account_history, stats, detected_anomalies, result, feed, knobs,
                   log, updates, arg, thread_vars, versions, runs>>

NextDirect == EvaluateTransaction

SpecDirect == InitDirect /\ [][NextDirect]_vars

----------------------------------------------------------------------------
(* Whole runs: process_batch, stream_detection and evaluate_performance on
   lists of transactions, some of them malformed, and the replay of a batch
   on a second engine as constructed. *)

Row(transaction_id, transaction) == [transaction_id |-> transaction_id] @@ transaction

\* The transaction without one of its fields.
Without(transaction, field) ==
    [ f \in (DOMAIN transaction) \ {field} |-> transaction[f] ]

\* A row of a ground truth: the transaction with its label.
Labelled(transaction, is_fraudulent) == transaction @@ [is_fraudulent |-> is_fraudulent]

\* Lists with a transaction that is malformed in one way between or before
\* well-formed ones.
HostileRuns ==
    { << Row(1, Tx(Noon, "ACC001", 50, "BANK", "US")),
         Row(2, Tx(Garbled, "ACC001", 50, "BANK", "US")),
         Row(3, Tx(Noon + 100, "ACC001", 50, "BANK", "US")) >>,
      << Row(1, Tx(Noon, "ACC001", 50, "BANK", "US")),
         Row(2, Without(Tx(Noon + 50, "ACC001", 50, "BANK", "US"), "country")),
         Row(3, Tx(Noon + 100, "ACC001", 50, "BANK", "US")) >>,
      << Row(1, Without(Tx(Noon, "ACC001", 6000, "BANK", "US"), "merchant")),
         Row(2, Tx(Noon + 100, "ACC001", 50, "BANK", "RU")) >>,
      << Row(1, Tx(Opaque, "ACC001", 50, "BANK", "US")),
         Row(2, Tx(Noon + 100, "ACC001", 50, "BANK", "US")) >> }

\* Ground truths: a false positive (an honest transaction at night), a true
\* negative, a true positive followed by a false negative, and two true
\* positives with a false positive.
PerformanceRuns ==
    { << Labelled(Row(1, Tx(Night, "ACC002", 50, "BANK", "US")), FALSE) >>,
      << Labelled(Row(2, Tx(Noon, "ACC002", 50, "BANK", "US")), FALSE) >>,
      << Labelled(Row(3, Tx(Noon, "ACC001", 6000, "BANK", "US")), TRUE),
         Labelled(Row(4, Tx(Noon + Hour, "ACC001", 50, "BANK", "US")), TRUE) >>,
      << Labelled(Row(5, Tx(Noon, "ACC001", 6000, "BANK", "US")), TRUE),
         Labelled(Row(6, Tx(Night, "ACC002", 50, "BANK", "US")), FALSE),
         Labelled(Row(7, Tx(Noon + Hour, "ACC001", 50, "DARK_WEB_STORE", "US")), TRUE) >> }

\* The interrupts a run of stream_detection may get, None being no interrupt.
Interrupts(transaction_stream) ==
    {None} \cup [ after : 0..(Len(transaction_stream) - 1),
                  at    : {"sleep"} \cup InterruptPoints ]

InitBatch ==
    /\ rules = DefaultRules
    /\ transaction_history = [a \in Accounts |-> <<>>]
    /\ account_history = <<>>
    /\ stats = InitialStats
    /\ detected_anomalies = <<>>
    /\ result = None
    /\ feed \in {HostileRuns, PerformanceRuns}
    /\ knobs = {}
    /\ log = <<>>
    /\ last = [op |-> "init"]
    /\ updates = 0
    /\ arg = None
    /\ ret = None
    /\ pc = <<>>
    /\ loc = <<>>
    /\ detector_lock = NoThread
    /\ engine_lock = NoThread
    /\ completed = <<>>
    /\ versions = <<DefaultRules>>
    /\ runs = 0

\* The engine is left as the run r left it.
Leaves(r) ==
    /\ transaction_history' = r.state.transaction_history
    /\ account_history' = r.state.account_history
    /\ stats' = r.state.stats
    /\ detected_anomalies' = r.state.detected_anomalies

ProcessBatch ==
    /\ runs < MaxRuns
    /\ \E transactions \in feed :
       \E clocks \in ClocksFor(transactions) :
         \E r \in {process_batch(EngineState, transactions, clocks)} :
             /\ Leaves(r)
             /\ ret' = [results |-> r.results, raised |-> r.raised]
             /\ last' = [ op |-> "process_batch", input |-> transactions,
                          pre |-> EngineState, evaluated |-> r.evaluated,
                          interrupted |-> FALSE ]
    /\ runs' = runs + 1
    /\ UNCHANGED <<rules, result, feed, knobs, log, updates, arg, thread_vars, versions>>

\* The batch just run on the engine as constructed is run again on a second
\* engine as constructed; the first engine is not touched.
Replay ==
    /\ last.op = "process_batch"
    /\ last.pre = FreshEngine
    /\ "replayed" \notin DOMAIN ret
    /\ \E clocks \in ClocksFor(last.input) :
         \E r \in {process_batch(FreshEngine, last.input, clocks)} :
             ret' = ret @@ [replayed |-> [results |-> r.results, raised |-> r.raised]]
    /\ UNCHANGED <<rules, transaction_history, account_history, stats, detected_anomalies,
                   result, feed, knobs, log, last, updates, arg, thread_vars, versions,
                   runs>>

StreamDetection ==
    /\ runs < MaxRuns
    /\ \E transaction_stream \in feed :
       \E clocks \in ClocksFor(transaction_stream),
          interrupt \in Interrupts(transaction_stream) :
         \E r \in {stream_detection(EngineState, transaction_stream, clocks, interrupt)} :
             /\ Leaves(r)
             /\ ret' = [raised |-> r.raised]
             /\ last' = [ op |-> "stream_detection", input |-> transaction_stream,
                          pre |-> EngineState, evaluated |-> r.evaluated,
                          interrupted |-> r.interrupted ]
    /\ runs' = runs + 1
    /\ UNCHANGED <<rules, result, feed, knobs, log, updates, arg, thread_vars, versions>>

EvaluatePerformance ==
    /\ runs < MaxRuns
    /\ \E ground_truth \in feed :
       \E clocks \in ClocksFor(ground_truth) :
         \E r \in {evaluate_performance(EngineState, ground_truth, clocks)} :
             /\ Leaves(r)
             /\ ret' = [performance |-> r.performance, raised |-> r.raised]
             /\ last' = [ op |-> "evaluate_performance", input |-> ground_truth,
                          pre |-> EngineState, interrupted |-> FALSE,
                          clocks |-> clocks ]
    /\ runs' = runs + 1
    /\ UNCHANGED <<rules, result, feed, knobs, log, updates, arg, thread_vars, versions>>

NextBatch == ProcessBatch \/ Replay \/ StreamDetection \/ EvaluatePerformance

SpecBatch == InitBatch /\ [][NextBatch]_vars

----------------------------------------------------------------------------
(* Concurrent callers: NThreads threads each make one process_transaction
   call, statement by statement, while update_rule calls arrive.  A step is
   one statement of the source; the list comprehension of lines 93-96 is two
   steps, building the pruned list and storing it. *)

Threads == 1..NThreads

\* Faulty variant: the lock excludes nobody.
AcquirableAlways(lock) == TRUE

\* with self.lock: the lock can be taken when no thread holds it.
Acquirable(lock) == lock = NoThread

\* The local variables of a call on entry.
Locals(transaction) ==
    [ op              |-> "process_transaction",
      raised          |-> NoException,
      transaction     |-> transaction,
      previous        |-> None,
      i               |-> 1,
      anomalies       |-> <<>>,
      triggered_rules |-> <<>>,
      is_anomalous    |-> FALSE,
      reason          |-> <<>>,
      start           |-> 0,
      timestamp       |-> 0,
      window_seconds  |-> 0,
      cutoff          |-> 0,
      pruned          |-> <<>>,
      count           |-> 0,
      j               |-> 1,
      result          |-> None,
      read            |-> <<>> ]

\* Every thread's call is for one account at one instant.
SameInstant == [ t \in Threads |-> Tx(Noon, "ACC001", 50, "BANK", "US") ]

\* Calls for two accounts at different instants, one of them anomalous.
Spread ==
    [ t \in Threads |->
        IF t = 1 THEN Tx(Noon + 100, "ACC001", 50, "BANK", "US")
        ELSE IF t = 2 THEN Tx(Noon, "ACC002", 50, "BANK", "US")
        ELSE Tx(Noon, "ACC001", 6000, "BANK", "RU") ]

\* Reconfigurations that change two fields of one rule at once.
KnobsConcurrent ==
    { <<"rapid_transactions", [threshold |-> 2, time_window |-> 150]>>,
      <<"rapid_transactions", [enabled |-> FALSE, threshold |-> 10]>> }

ConcurrentScenarios ==
    { [calls |-> SameInstant, knobs |-> KnobsConcurrent],
      [calls |-> Spread,      knobs |-> {}] }

InitConc ==
    /\ rules = DefaultRules
    /\ transaction_history = [a \in Accounts |-> <<>>]
    /\ account_history = <<>>
    /\ stats = InitialStats
    /\ detected_anomalies = <<>>
    /\ result = None
    /\ feed = {}
    /\ log = <<>>
    /\ last = [op |-> "init"]
    /\ updates = 0
    /\ arg = None
    /\ ret = None
    /\ \E sc \in ConcurrentScenarios :
         /\ knobs = sc.knobs
         /\ loc = [ t \in Threads |-> Locals([transaction_id |-> t] @@ sc.calls[t]) ]
    /\ pc = [ t \in Threads |-> "start" ]
    /\ detector_lock = NoThread
    /\ engine_lock = NoThread
    /\ completed = <<>>
    /\ versions = <<DefaultRules>>
    /\ runs = 0

\* What a step of a call leaves alone, besides the engine state it names.
Frame == UNCHANGED <<result, feed, knobs, last, updates, arg, ret, versions, runs>>

Goto(t, label) == pc' = [pc EXCEPT ![t] = label]

RuleAt(t) == RuleOrder[loc[t].i]

\* anomaly_detector.py line 26: with self.lock
AcquireDetector(t) ==
    /\ pc[t] = "start"
    /\ Acquirable(detector_lock)
    /\ detector_lock' = t
    /\ log' = Append(log, loc[t].transaction)
    /\ Goto(t, "count")
    /\ Frame
    /\ UNCHANGED <<rules, transaction_history, account_history, stats,
                   detected_anomalies, loc, engine_lock, completed>>

\* line 27: self.stats['total_transactions'] += 1
CountTransaction(t) ==
    /\ pc[t] = "count"
    /\ stats' = [stats EXCEPT !.total_transactions = @ + 1]
    /\ Goto(t, "lookup")
    /\ Frame
    /\ UNCHANGED <<rules, transaction_history, account_history, detected_anomalies,
                   loc, detector_lock, engine_lock, completed, log>>

\* lines 29-30: previous = self.account_history.get(account)
LookupPrevious(t) ==
    /\ pc[t] = "lookup"
    /\ loc' = [loc EXCEPT ![t].previous =
                   Get(account_history, loc[t].transaction.account_id, None)]
    /\ Goto(t, "loop")
    /\ Frame
    /\ UNCHANGED <<rules, transaction_history, account_history, stats,
                   detected_anomalies, detector_lock, engine_lock, completed, log>>

\* rule_engine.py lines 189-191: the next rule, skipped when it is disabled.
LoopHead(t) ==
    /\ pc[t] = "loop"
    /\ IF loc[t].i > Len(RuleOrder)
       THEN /\ Goto(t, "verdict")
            /\ loc' = loc
       ELSE IF RuleSkipped(rules[RuleAt(t)])
       THEN /\ Goto(t, "loop")
            /\ loc' = [loc EXCEPT ![t].i = @ + 1]
       ELSE /\ Goto(t, CASE RuleAt(t) = "rapid_transactions" -> "rapid_lock"
                         [] RuleAt(t) = "odd_hours" -> "odd_start"
                         [] OTHER -> "check")
            /\ loc' = [loc EXCEPT ![t].read =
                           IF RuleAt(t) = "rapid_transactions"
                           THEN [enabled |-> rules[RuleAt(t)].enabled]
                           ELSE @]
    /\ Frame
    /\ UNCHANGED <<rules, transaction_history, account_history, stats,
                   detected_anomalies, detector_lock, engine_lock, completed, log>>

\* lines 196-209 for the checks that read one parameter of their rule.
CheckRule(t) ==
    /\ pc[t] = "check"
    /\ \E clock \in Clocks :
       LET r == Dispatch(RuleAt(t), rules, transaction_history,
                         loc[t].transaction, loc[t].previous, clock)
       IN  /\ ~ Raised(r)
           /\ loc' = [loc EXCEPT ![t].is_anomalous = r.triggered, ![t].reason = r.reason]
    /\ Goto(t, "record")
    /\ Frame
    /\ UNCHANGED <<rules, transaction_history, account_history, stats,
                   detected_anomalies, detector_lock, engine_lock, completed, log>>

\* line 111: start = self.rules['odd_hours']['start_hour']
OddHoursStart(t) ==
    /\ pc[t] = "odd_start"
    /\ loc' = [loc EXCEPT ![t].start = rules["odd_hours"].start_hour]
    /\ Goto(t, "odd_end")
    /\ Frame
    /\ UNCHANGED <<rules, transaction_history, account_history, stats,
                   detected_anomalies, detector_lock, engine_lock, completed, log>>

\* lines 112-119: end is read and the hour tested against start and end.
OddHoursEnd(t) ==
    /\ pc[t] = "odd_end"
    /\ \E clock \in Clocks :
       LET r == check_odd_hours([rules EXCEPT !["odd_hours"].start_hour = loc[t].start],
                                loc[t].transaction, clock)
       IN  loc' = [loc EXCEPT ![t].is_anomalous = r.triggered, ![t].reason = r.reason]
    /\ Goto(t, "record")
    /\ Frame
    /\ UNCHANGED <<rules, transaction_history, account_history, stats,
                   detected_anomalies, detector_lock, engine_lock, completed, log>>

\* line 87: with self.lock
RapidLock(t) ==
    /\ pc[t] = "rapid_lock"
    /\ Acquirable(engine_lock)
    /\ engine_lock' = t
    /\ Goto(t, "rapid_window")
    /\ Frame
    /\ UNCHANGED <<rules, transaction_history, account_history, stats,
                   detected_anomalies, loc, detector_lock, completed, log>>

\* lines 88-92: the window is read and the cutoff computed.
RapidWindow(t) ==
    /\ pc[t] = "rapid_window"
    /\ ~ Malformed(loc[t].transaction.timestamp)
    /\ \E clock \in Clocks :
       LET window_seconds == rules["rapid_transactions"].time_window IN
       loc' = [loc EXCEPT
                 ![t].window_seconds = window_seconds,
                 ![t].timestamp = ParseTimestamp(loc[t].transaction.timestamp, clock.rapid),
                 ![t].cutoff = ParseTimestamp(loc[t].transaction.timestamp, clock.rapid)
                                   - window_seconds,
                 ![t].read = [enabled |-> @.enabled, time_window |-> window_seconds]]
    /\ Goto(t, "rapid_filter")
    /\ Frame
    /\ UNCHANGED <<rules, transaction_history, account_history, stats,
                   detected_anomalies, detector_lock, engine_lock, completed, log>>

\* lines 94-96: the pruned list is built.
RapidFilter(t) ==
    /\ pc[t] = "rapid_filter"
    /\ loc' = [loc EXCEPT ![t].pruned =
                   PruneWindow(transaction_history[loc[t].transaction.account_id],
                               loc[t].cutoff)]
    /\ Goto(t, "rapid_assign")
    /\ Frame
    /\ UNCHANGED <<rules, transaction_history, account_history, stats,
                   detected_anomalies, detector_lock, engine_lock, completed, log>>

\* line 93: the pruned list replaces the account's list.
RapidAssign(t) ==
    /\ pc[t] = "rapid_assign"
    /\ transaction_history' =
           [transaction_history EXCEPT ![loc[t].transaction.account_id] = loc[t].pruned]
    /\ Goto(t, "rapid_append")
    /\ Frame
    /\ UNCHANGED <<rules, account_history, stats, detected_anomalies, loc,
                   detector_lock, engine_lock, completed, log>>

\* line 98: the current transaction is appended.
RapidAppend(t) ==
    /\ pc[t] = "rapid_append"
    /\ transaction_history' =
           [transaction_history EXCEPT ![loc[t].transaction.account_id] =
               Append(@, <<loc[t].timestamp, loc[t].transaction.amount>>)]
    /\ Goto(t, "rapid_compare")
    /\ Frame
    /\ UNCHANGED <<rules, account_history, stats, detected_anomalies, loc,
                   detector_lock, engine_lock, completed, log>>

\* lines 100-104: the threshold is read and the length compared with it.
RapidCompare(t) ==
    /\ pc[t] = "rapid_compare"
    /\ LET threshold == rules["rapid_transactions"].threshold
           count     == Len(transaction_history[loc[t].transaction.account_id])
       IN  loc' = [loc EXCEPT
                     ![t].count = count,
                     ![t].is_anomalous = RapidTriggered(count, threshold),
                     ![t].reason = IF RapidTriggered(count, threshold)
                                   THEN <<count, loc[t].window_seconds>> ELSE <<>>,
                     ![t].read = [enabled |-> @.enabled, time_window |-> @.time_window,
                                  threshold |-> threshold]]
    /\ Goto(t, "rapid_unlock")
    /\ Frame
    /\ UNCHANGED <<rules, transaction_history, account_history, stats,
                   detected_anomalies, detector_lock, engine_lock, completed, log>>

\* the end of the with block of line 87
RapidUnlock(t) ==
    /\ pc[t] = "rapid_unlock"
    /\ engine_lock' = NoThread
    /\ Goto(t, "record")
    /\ Frame
    /\ UNCHANGED <<rules, transaction_history, account_history, stats,
                   detected_anomalies, loc, detector_lock, completed, log>>

\* lines 211-218: a triggered rule adds its record.
RecordAnomaly(t) ==
    /\ pc[t] = "record"
    /\ loc' = [loc EXCEPT
                 ![t].anomalies =
                     IF loc[t].is_anomalous
                     THEN Append(@, AnomalyRecord(RuleAt(t), rules[RuleAt(t)],
                                                  loc[t].reason, loc[t].transaction))
                     ELSE @,
                 ![t].triggered_rules =
                     IF loc[t].is_anomalous THEN Append(@, RuleAt(t)) ELSE @,
                 ![t].i = @ + 1]
    /\ Goto(t, "loop")
    /\ Frame
    /\ UNCHANGED <<rules, transaction_history, account_history, stats,
                   detected_anomalies, detector_lock, engine_lock, completed, log>>

\* lines 220-230, and the assignment of anomaly_detector.py line 32
BuildVerdict(t) ==
    /\ pc[t] = "verdict"
    /\ loc[t].op = "process_transaction"
    /\ loc' = [loc EXCEPT ![t].result =
                   Verdict(loc[t].transaction, loc[t].anomalies, loc[t].triggered_rules)]
    /\ Goto(t, "store")
    /\ Frame
    /\ UNCHANGED <<rules, transaction_history, account_history, stats,
                   detected_anomalies, detector_lock, engine_lock, completed, log>>

\* anomaly_detector.py line 34: self.account_history[account] = transaction
StorePrevious(t) ==
    /\ pc[t] = "store"
    /\ account_history' =
           DictUpdate(account_history,
                      loc[t].transaction.account_id :> loc[t].transaction)
    /\ Goto(t, "stat")
    /\ Frame
    /\ UNCHANGED <<rules, transaction_history, stats, detected_anomalies, loc,
                   detector_lock, engine_lock, completed, log>>

\* lines 36-37
CountAnomalous(t) ==
    /\ pc[t] = "stat"
    /\ IF loc[t].result.is_anomalous
       THEN /\ stats' = [stats EXCEPT !.anomalous_transactions = @ + 1]
            /\ Goto(t, "stat_append")
       ELSE /\ stats' = stats
            /\ Goto(t, "finish")
    /\ Frame
    /\ UNCHANGED <<rules, transaction_history, account_history, detected_anomalies,
                   loc, detector_lock, engine_lock, completed, log>>

\* line 38
AppendDetected(t) ==
    /\ pc[t] = "stat_append"
    /\ detected_anomalies' = Append(detected_anomalies, loc[t].result)
    /\ Goto(t, "stat_rules")
    /\ Frame
    /\ UNCHANGED <<rules, transaction_history, account_history, stats, loc,
                   detector_lock, engine_lock, completed, log>>

\* lines 40-41, one iteration
CountRule(t) ==
    /\ pc[t] = "stat_rules"
    /\ IF loc[t].j > Len(loc[t].result.triggered_rules)
       THEN /\ Goto(t, "finish")
            /\ UNCHANGED <<stats, loc>>
       ELSE /\ stats' = [stats EXCEPT !.rules_triggered =
                            CountTriggers(@, <<loc[t].result.triggered_rules[loc[t].j]>>)]
            /\ loc' = [loc EXCEPT ![t].j = @ + 1]
            /\ Goto(t, "stat_rules")
    /\ Frame
    /\ UNCHANGED <<rules, transaction_history, account_history, detected_anomalies,
                   detector_lock, engine_lock, completed, log>>

\* lines 43-45: the verdict is returned and the lock released.
Finish(t) ==
    /\ pc[t] = "finish"
    /\ detector_lock' = NoThread
    /\ completed' = Append(completed, t)
    /\ Goto(t, "done")
    /\ Frame
    /\ UNCHANGED <<rules, transaction_history, account_history, stats,
                   detected_anomalies, loc, engine_lock, log>>

Call(t) ==
    \/ AcquireDetector(t) \/ CountTransaction(t) \/ LookupPrevious(t)
    \/ LoopHead(t) \/ CheckRule(t) \/ OddHoursStart(t) \/ OddHoursEnd(t)
    \/ RapidLock(t) \/ RapidWindow(t) \/ RapidFilter(t) \/ RapidAssign(t)
    \/ RapidAppend(t) \/ RapidCompare(t) \/ RapidUnlock(t)
    \/ RecordAnomaly(t) \/ BuildVerdict(t) \/ StorePrevious(t)
    \/ CountAnomalous(t) \/ AppendDetected(t) \/ CountRule(t) \/ Finish(t)

NextConc == (\E t \in Threads : Call(t)) \/ UpdateRule

SpecConc == InitConc /\ [][NextConc]_vars

----------------------------------------------------------------------------
(* Concurrent callers of process_transaction and of evaluate_transaction
   itself, some with a transaction that makes the call raise, while
   update_rule calls arrive. *)

\* Faulty variant: the lock stays taken when an exception leaves the block.
ExitWithHeld(lock, t) == lock

\* The end of a with block: the lock is released if thread t holds it.
ExitWith(lock, t) == IF lock = t THEN NoThread ELSE lock

\* A call of evaluate_transaction itself: no detector, the previous
\* transaction is an argument.
DirectLocals(transaction, previous_transaction) ==
    [ Locals(transaction) EXCEPT !.op = "evaluate_transaction",
                                 !.previous = previous_transaction ]

\* The rule set the calls contend under: the rule that takes the lock, one
\* that reads the timestamp and one that reads the country, the other rules
\* having been switched off.
RECURSIVE SwitchedOff(_, _)
SwitchedOff(rs, names) ==
    IF names = {} THEN rs
    ELSE LET r == CHOOSE x \in names : TRUE
         IN  SwitchedOff(update_rule(rs, r, [enabled |-> FALSE]), names \ {r})

LockRules ==
    SwitchedOff(DefaultRules,
                {"large_amount", "geographic_impossible", "unusual_merchant"})

\* What each thread calls.  Thread 1 calls process_transaction with a
\* timestamp in another format, thread 2 calls evaluate_transaction itself,
\* the others call process_transaction with an anomalous transaction.
Contended ==
    [ t \in Threads |->
        IF t = 1 THEN Locals(Row(t, Tx(Garbled, "ACC001", 50, "BANK", "US")))
        ELSE IF t = 2
        THEN DirectLocals(Row(t, Tx(Noon, "ACC001", 50, "BANK", "RU")), None)
        ELSE Locals(Row(t, Tx(Noon, "ACC001", 50, "BANK", "RU"))) ]

\* Thread 1 calls process_transaction without a country, thread 2 calls
\* evaluate_transaction with a timestamp in another format.
ContendedDirect ==
    [ t \in Threads |->
        IF t = 1
        THEN Locals(Row(t, Without(Tx(Noon, "ACC001", 50, "BANK", "US"), "country")))
        ELSE IF t = 2
        THEN DirectLocals(Row(t, Tx(Garbled, "ACC001", 50, "BANK", "US")), None)
        ELSE Locals(Row(t, Tx(Noon, "ACC002", 50, "BANK", "RU"))) ]

KnobsLocks == { <<"rapid_transactions", [threshold |-> 1]>> }

InitLocks ==
    /\ rules = LockRules
    /\ transaction_history = [a \in Accounts |-> <<>>]
    /\ account_history = <<>>
    /\ stats = InitialStats
    /\ detected_anomalies = <<>>
    /\ result = None
    /\ feed = {}
    /\ log = <<>>
    /\ last = [op |-> "init"]
    /\ updates = 0
    /\ arg = None
    /\ ret = <<>>
    /\ knobs = KnobsLocks
    /\ loc \in {Contended, ContendedDirect}
    /\ pc = [ t \in Threads |->
                IF loc[t].op = "process_transaction" THEN "start" ELSE "loop" ]
    /\ detector_lock = NoThread
    /\ engine_lock = NoThread
    /\ completed = <<>>
    /\ versions = <<LockRules>>
    /\ runs = 0

\* rule_engine.py line 89: _parse_timestamp raises inside the with block of
\* line 87.
RapidRaises(t) ==
    /\ pc[t] = "rapid_window"
    /\ Malformed(loc[t].transaction.timestamp)
    /\ loc' = [loc EXCEPT ![t].raised = "ValueError"]
    /\ Goto(t, "rapid_unwind")
    /\ Frame
    /\ UNCHANGED <<rules, transaction_history, account_history, stats,
                   detected_anomalies, detector_lock, engine_lock, completed, log>>

\* The exception leaves the with block of line 87.
RapidUnwind(t) ==
    /\ pc[t] = "rapid_unwind"
    /\ engine_lock' = ExitWith(engine_lock, t)
    /\ Goto(t, "unwind")
    /\ Frame
    /\ UNCHANGED <<rules, transaction_history, account_history, stats,
                   detected_anomalies, loc, detector_lock, completed, log>>

\* lines 196-209: one of the other checks raises.
RuleRaises(t) ==
    /\ pc[t] = "check"
    /\ \E clock \in Clocks :
       LET r == Dispatch(RuleAt(t), rules, transaction_history,
                         loc[t].transaction, loc[t].previous, clock)
       IN  /\ Raised(r)
           /\ loc' = [loc EXCEPT ![t].raised = r.raised]
    /\ Goto(t, "unwind")
    /\ Frame
    /\ UNCHANGED <<rules, transaction_history, account_history, stats,
                   detected_anomalies, detector_lock, engine_lock, completed, log>>

\* The exception leaves evaluate_transaction and, in process_transaction, the
\* with block of anomaly_detector.py line 26.  ret keeps, for each call that
\* raised, the calls that had not begun by then.
Unwind(t) ==
    /\ pc[t] = "unwind"
    /\ detector_lock' = ExitWith(detector_lock, t)
    /\ ret' = Append(ret, [ thread |-> t, raised |-> loc[t].raised,
                            waiting |-> { u \in Threads : pc[u] = "start" } ])
    /\ Goto(t, "raised")
    /\ UNCHANGED <<rules, transaction_history, account_history, stats,
                   detected_anomalies, result, feed, knobs, last, updates, arg,
                   versions, runs, loc, engine_lock, completed, log>>

\* rule_engine.py lines 220-230 in a call of evaluate_transaction itself: the
\* verdict is returned.
ReturnVerdict(t) ==
    /\ pc[t] = "verdict"
    /\ loc[t].op = "evaluate_transaction"
    /\ loc' = [loc EXCEPT ![t].result =
                   Verdict(loc[t].transaction, loc[t].anomalies, loc[t].triggered_rules)]
    /\ completed' = Append(completed, t)
    /\ Goto(t, "done")
    /\ Frame
    /\ UNCHANGED <<rules, transaction_history, account_history, stats,
                   detected_anomalies, detector_lock, engine_lock, log>>

\* update_rule, which takes no lock; the state it began in is not kept.
UpdateRuleUnlocked ==
    /\ updates < MaxUpdates
    /\ \E k \in knobs :
         /\ rules' = update_rule(rules, k[1], k[2])
         /\ versions' = Append(versions, update_rule(rules, k[1], k[2]))
    /\ updates' = updates + 1
    /\ UNCHANGED <<transaction_history, account_history, stats, detected_anomalies,
                   result, feed, knobs, log, last, arg, ret, thread_vars, runs>>

LockCall(t) ==
    \/ Call(t)
    \/ RapidRaises(t) \/ RapidUnwind(t) \/ RuleRaises(t) \/ Unwind(t) \/ ReturnVerdict(t)

NextLocks == (\E t \in Threads : LockCall(t)) \/ UpdateRuleUnlocked

SpecLocks == InitLocks /\ [][NextLocks]_vars

\* Every thread that can take a step of its call takes one in the end.
SpecLocksFair == SpecLocks /\ \A t \in Threads : WF_vars(LockCall(t))

----------------------------------------------------------------------------
(* A report read while process_transaction calls run. *)

\* get_detailed_report, anomaly_detector.py lines 136-147: no lock is taken.
\* The report is what its fields hold when it is built.
get_detailed_report(s) ==
    [ summary    |-> [ total_transactions |-> s.stats.total_transactions,
                       anomalies_detected |-> s.stats.anomalous_transactions ],
      anomalies  |-> s.detected_anomalies,
      statistics |-> s.stats ]

GetDetailedReport ==
    /\ result = None
    /\ result' = get_detailed_report(EngineState)
    /\ UNCHANGED <<rules, transaction_history, account_history, stats, detected_anomalies,
                   feed, knobs, log, last, updates, arg, ret, thread_vars, versions, runs>>

InitReport == InitConc /\ knobs = {}

NextReport == (\E t \in Threads : Call(t)) \/ GetDetailedReport

SpecReport == InitReport /\ [][NextReport]_vars

----------------------------------------------------------------------------
(* Vocabulary of the properties *)

\* The last call that returned was process_transaction.
Returned == last.op = "process_transaction"

RuleIds(anomalies) == { anomalies[i].rule : i \in 1..Len(anomalies) }

Elements(seq) == { seq[i] : i \in 1..Len(seq) }

TriggerCount(st, r) == Get(st.rules_triggered, r, 0)

HowMany(anomalies, severity) ==
    Cardinality({ i \in 1..Len(anomalies) : anomalies[i].severity = severity })

\* The timestamps of an account's evaluated transactions, in arrival order.
RECURSIVE TimesOf(_, _)
TimesOf(account, transactions) ==
    IF transactions = <<>> THEN <<>>
    ELSE LET rest == TimesOf(account, Tail(transactions)) IN
         IF Head(transactions).account_id = account
         THEN <<Head(transactions).timestamp>> \o rest
         ELSE rest

\* The evaluated transactions of the account before the last one in the log.
EarlierOf(account) ==
    { i \in 1..(Len(log) - 1) : log[i].account_id = account }

Max(S) == CHOOSE x \in S : \A y \in S : y <= x

----------------------------------------------------------------------------
(* C1: in every verdict returned, is_anomalous, risk_score > 0 and
   anomaly_count > 0 are equivalent, anomaly_count being the number of
   anomaly records. *)
C1_VerdictEquivalence ==
    result # None =>
        /\ result.anomaly_count = Len(result.anomalies)
        /\ result.is_anomalous <=> result.risk_score > 0
        /\ result.risk_score > 0 <=> result.anomaly_count > 0

\* An anomalous verdict whose only records are MEDIUM, after a reconfiguration.
C1_Witness ==
    /\ result # None
    /\ result.is_anomalous
    /\ HowMany(result.anomalies, "MEDIUM") = Len(result.anomalies)
    /\ updates > 0

(* C2: _calculate_risk_score returns min(100, sum of weight * 25) with the
   weights CRITICAL 1.0, HIGH 0.7, MEDIUM 0.4, LOW 0.2; the result is in
   0..100, the empty list gives 0 and five CRITICAL records give 100.
   Scores are in tenths of a point. *)
C2_RiskScore ==
    ret # None =>
        /\ ret.value \in 0..1000
        /\ arg = <<>> => ret.value = 0
        /\ (\A i \in 1..Len(arg) : arg[i].severity \in Severities) =>
              ret.value = Min(1000, 250 * HowMany(arg, "CRITICAL")
                                    + 175 * HowMany(arg, "HIGH")
                                    + 100 * HowMany(arg, "MEDIUM")
                                    + 50 * HowMany(arg, "LOW"))
        /\ (Len(arg) = 5 /\ HowMany(arg, "CRITICAL") = 5) => ret.value = 1000

\* Five CRITICAL records have been scored.
C2_Witness ==
    /\ ret # None
    /\ Len(arg) = 5
    /\ HowMany(arg, "CRITICAL") = 5

(* C3: a rule whose enabled flag is false when a transaction is evaluated
   contributes no anomaly record and no triggered_rules entry to the verdict,
   and its trigger count is not incremented by that evaluation. *)
C3_DisabledRuleSilent ==
    Returned =>
        \A r \in RuleNames :
            ~ last.pre.rules[r].enabled =>
                /\ r \notin RuleIds(result.anomalies)
                /\ r \notin Elements(result.triggered_rules)
                /\ TriggerCount(stats, r) = TriggerCount(last.pre.stats, r)

\* large_amount is off and the amount is above its threshold, in a verdict
\* that other rules made anomalous.
C3_Witness ==
    /\ Returned
    /\ ~ last.pre.rules["large_amount"].enabled
    /\ last.transaction.amount > last.pre.rules["large_amount"].threshold
    /\ result.is_anomalous

(* C7: with rapid_transactions enabled, the count compared against the
   threshold is the number of the account's evaluated transactions, the current
   one included, whose timestamp lies in the trailing time_window seconds of
   the current timestamp, whatever order they arrived in; the rule triggers
   iff that count is >= threshold. *)
C7_TrailingCount ==
    (Returned /\ last.pre.rules["rapid_transactions"].enabled) =>
        LET cur       == last.transaction
            window    == last.pre.rules["rapid_transactions"].time_window
            threshold == last.pre.rules["rapid_transactions"].threshold
            inWindow  == { i \in 1..Len(log) :
                             /\ log[i].account_id = cur.account_id
                             /\ log[i].timestamp > cur.timestamp - window
                             /\ log[i].timestamp <= cur.timestamp }
        IN  /\ Len(transaction_history[cur.account_id]) = Cardinality(inWindow)
            /\ "rapid_transactions" \in Elements(result.triggered_rules)
                   <=> Cardinality(inWindow) >= threshold

(* C8: default configuration, fresh engine: transactions of one account at
   t = 0, 100 and 200 s trigger rapid_transactions on the third only; a
   fourth at 1000 s does not trigger it, a fourth at 250 s does. *)
C8_BurstScenario ==
    (Returned /\ updates = 0 /\ last.transaction.account_id = "ACC001") =>
        LET times == TimesOf("ACC001", log)
            rapid == "rapid_transactions" \in Elements(result.triggered_rules)
        IN  /\ times = <<Noon>> => ~ rapid
            /\ times = <<Noon, Noon + 100>> => ~ rapid
            /\ times = <<Noon, Noon + 100, Noon + 200>> => rapid
            /\ times = <<Noon, Noon + 100, Noon + 200, Noon + 1000>> => ~ rapid
            /\ times = <<Noon, Noon + 100, Noon + 200, Noon + 250>> => rapid

\* The fourth transaction, at 1000 s, has been evaluated.
C8_Witness ==
    /\ Returned
    /\ updates = 0
    /\ last.transaction.account_id = "ACC001"
    /\ TimesOf("ACC001", log) = <<Noon, Noon + 100, Noon + 200, Noon + 1000>>

(* C9: after every process_transaction(tx) that returns, whatever the enabled
   flags, tx is the account's previous transaction, (tx.timestamp, tx.amount)
   is the newest entry of the account's window, and the window holds no entry
   older than tx.timestamp minus time_window. *)
C9_HistoryRecorded ==
    Returned =>
        LET tx      == last.transaction
            window  == transaction_history[tx.account_id]
            horizon == tx.timestamp - last.pre.rules["rapid_transactions"].time_window
        IN  /\ tx.account_id \in DOMAIN account_history
            /\ account_history[tx.account_id] = tx
            /\ window # <<>>
            /\ window[Len(window)] = <<tx.timestamp, tx.amount>>
            /\ \A i \in 1..Len(window) : window[i][1] >= horizon

(* C10: with geographic_impossible enabled, the rule triggers iff the account
   has a previous (most recently evaluated) transaction, both countries have
   known coordinates, the timestamps differ and distance / |elapsed hours|
   exceeds max_speed_kmh.  The first transaction of an account never triggers;
   US then RU one hour later triggers, 30 hours later does not (default 800). *)
C10_GeoVelocity ==
    (Returned /\ last.pre.rules["geographic_impossible"].enabled) =>
        LET cur       == last.transaction
            earlier   == EarlierOf(cur.account_id)
            triggered == "geographic_impossible" \in Elements(result.triggered_rules)
            max_speed == last.pre.rules["geographic_impossible"].max_speed_kmh
        IN  IF earlier = {} THEN ~ triggered
            ELSE
            LET prev    == log[Max(earlier)]
                elapsed == Abs(cur.timestamp - prev.timestamp)
            IN  /\ triggered <=>
                      /\ cur.country \in KnownCountries
                      /\ prev.country \in KnownCountries
                      /\ cur.timestamp # prev.timestamp
                      /\ haversine_distance(prev.country, cur.country) * 3600
                             > max_speed * elapsed
                /\ (/\ prev.country = "US" /\ cur.country = "RU" /\ max_speed = 800
                    /\ cur.timestamp = prev.timestamp + Hour) => triggered
                /\ (/\ prev.country = "US" /\ cur.country = "RU" /\ max_speed = 800
                    /\ cur.timestamp = prev.timestamp + 30 * Hour) => ~ triggered

\* US, then RU one hour later, under the default speed: the rule triggered.
C10_Witness ==
    /\ Returned
    /\ last.pre.rules["geographic_impossible"].enabled
    /\ last.pre.rules["geographic_impossible"].max_speed_kmh = 800
    /\ EarlierOf(last.transaction.account_id) # {}
    /\ log[Max(EarlierOf(last.transaction.account_id))].country = "US"
    /\ last.transaction.country = "RU"
    /\ last.transaction.timestamp
           = log[Max(EarlierOf(last.transaction.account_id))].timestamp + Hour
    /\ "geographic_impossible" \in Elements(result.triggered_rules)

\* The records of a rule in a list of anomaly records.
RecordsOf(anomalies, rule_name) ==
    { i \in 1..Len(anomalies) : anomalies[i].rule = rule_name }

(* C11: with large_amount enabled and the default threshold 5000, the verdict
   holds a large_amount record iff amount > 5000 (5000 itself does not
   trigger); the record's severity is CRITICAL above 20000, HIGH above 10000
   up to 20000, MEDIUM above 5000 up to 10000. *)
C11_LargeAmountTiers ==
    (/\ result # None
     /\ rules["large_amount"].enabled
     /\ rules["large_amount"].threshold = 5000) =>
        LET amount  == arg.transaction.amount
            records == RecordsOf(result.anomalies, "large_amount")
        IN  /\ records # {} <=> amount > 5000
            /\ amount = 5000 => records = {}
            /\ \A i \in records :
                   result.anomalies[i].severity =
                       IF amount > 20000 THEN "CRITICAL"
                       ELSE IF amount > 10000 /\ amount <= 20000 THEN "HIGH"
                       ELSE "MEDIUM"

\* An amount of exactly 20000 has been evaluated and recorded as HIGH.
C11_Witness ==
    /\ result # None
    /\ rules["large_amount"].enabled
    /\ arg.transaction.amount = 20000
    /\ \E i \in RecordsOf(result.anomalies, "large_amount") :
           result.anomalies[i].severity = "HIGH"

(* C12: with odd_hours enabled, the rule triggers iff the hour of day h lies
   in [start_hour, 24) or in [0, end_hour]; with the defaults 23 and 6 it
   triggers exactly for h in {23, 0, ..., 6}. *)
C12_OddHours ==
    (result # None /\ rules["odd_hours"].enabled) =>
        LET h         == arg.hour
            start     == rules["odd_hours"].start_hour
            end       == rules["odd_hours"].end_hour
            triggered == RecordsOf(result.anomalies, "odd_hours") # {}
        IN  /\ triggered <=> (h \in start..23 \/ h \in 0..end)
            /\ (start = 23 /\ end = 6) =>
                   (triggered <=> h \in {23, 0, 1, 2, 3, 4, 5, 6})

\* Six in the morning of the second day, under the default hours: triggered.
C12_Witness ==
    /\ result # None
    /\ rules["odd_hours"].enabled
    /\ rules["odd_hours"].start_hour = 23
    /\ rules["odd_hours"].end_hour = 6
    /\ arg.hour = 6
    /\ arg.transaction.timestamp >= Day
    /\ RecordsOf(result.anomalies, "odd_hours") # {}

\* The place of a rule id in the declaration order the contract fixes.
Place(rule_name) ==
    CASE rule_name = "large_amount"          -> 1
      [] rule_name = "rapid_transactions"    -> 2
      [] rule_name = "odd_hours"             -> 3
      [] rule_name = "geographic_impossible" -> 4
      [] rule_name = "suspicious_countries"  -> 5
      [] rule_name = "unusual_merchant"      -> 6

(* C13: in every verdict the anomaly records are in the declaration order
   large_amount, rapid_transactions, odd_hours, geographic_impossible,
   suspicious_countries, unusual_merchant, each rule id at most once, and
   triggered_rules lists the rule ids of the records in the same order; this
   holds after any update_rule calls on existing rules. *)
C13_RecordOrder ==
    Returned =>
        LET anomalies == result.anomalies IN
        /\ \A i, j \in 1..Len(anomalies) :
               i < j => Place(anomalies[i].rule) < Place(anomalies[j].rule)
        /\ result.triggered_rules = [ i \in 1..Len(anomalies) |-> anomalies[i].rule ]

\* After a reconfiguration, a verdict with rapid_transactions and odd_hours
\* among at least three records.
C13_Witness ==
    /\ Returned
    /\ updates > 0
    /\ Len(result.anomalies) >= 3
    /\ RecordsOf(result.anomalies, "rapid_transactions") # {}
    /\ RecordsOf(result.anomalies, "odd_hours") # {}

\* The rule ids of the engine as constructed.
DeclaredRules == DOMAIN DefaultRules

(* C18: update_rule with a rule id that is not in the rule set changes no
   state (the rule ids and every field of every rule are as before, no rule
   is created) and tells the caller the rule was not found; with an existing
   id it changes that rule's configuration only. *)
C18_UnknownRuleRejected ==
    last.op = "update_rule" =>
        /\ DOMAIN rules = DeclaredRules
        /\ \A r \in DeclaredRules \ {last.rule_name} : rules[r] = last.pre.rules[r]
        /\ [EngineState EXCEPT !.rules = last.pre.rules] = last.pre
        /\ last.rule_name \notin DeclaredRules =>
               /\ EngineState = last.pre
               /\ last.printed = <<"Rule not found", last.rule_name>>
        /\ last.rule_name \in DeclaredRules =>
               last.printed = <<"Updated rule", last.rule_name>>

\* An unknown id has been given once transactions had been evaluated.
C18_Witness ==
    /\ last.op = "update_rule"
    /\ last.rule_name \notin DeclaredRules
    /\ last.printed[1] = "Rule not found"
    /\ stats.anomalous_transactions > 0

----------------------------------------------------------------------------
(* Vocabulary of the properties of whole runs *)

\* The last operation was a run of process_batch or of stream_detection.
ListRun == last.op \in {"process_batch", "stream_detection"}

\* An exception left the last run.
RunRaised == ret.raised # NoException

\* The transaction whose call the exception left: the one after those whose
\* calls returned.
FailedOn == last.input[last.evaluated + 1]

Unparseable(timestamp) == timestamp \in {Garbled, Opaque}

VerdictFields ==
    { "transaction_id", "timestamp", "account_id", "amount", "is_anomalous",
      "anomaly_count", "anomalies", "triggered_rules", "risk_score" }

(* C14: the same list of transactions run through process_batch on two
   engines as constructed gives the same list of verdicts: the same flags,
   scores, anomaly records and record order at every position. *)
C14_ReplayIdentical ==
    (last.op = "process_batch" /\ "replayed" \in DOMAIN ret) =>
        /\ ret.replayed.raised = ret.raised
        /\ ret.replayed.results = ret.results

(* C15: process_transaction does not raise on a transaction whose timestamp
   cannot be parsed, a string in another format included: it returns a
   complete verdict. *)
C15_UnparseableReturns ==
    /\ (ListRun /\ RunRaised) => ~ Unparseable(FailedOn.timestamp)
    /\ (last.op = "process_batch" /\ ~ RunRaised) =>
           \A i \in 1..Len(last.input) :
               Unparseable(last.input[i].timestamp) =>
                   DOMAIN ret.results[i] = VerdictFields

(* C16: process_transaction does not raise on a transaction that lacks the
   merchant or the country field: the rules that need the missing field
   (unusual_merchant; suspicious_countries and geographic_impossible) are not
   triggered in the verdict it returns. *)
C16_MissingFieldTolerated ==
    /\ (ListRun /\ RunRaised) => {"merchant", "country"} \subseteq DOMAIN FailedOn
    /\ (last.op = "process_batch" /\ ~ RunRaised) =>
           \A i \in 1..Len(last.input) :
               LET triggered == Elements(ret.results[i].triggered_rules) IN
               /\ "merchant" \notin DOMAIN last.input[i] =>
                      "unusual_merchant" \notin triggered
               /\ "country" \notin DOMAIN last.input[i] =>
                      triggered \cap {"suspicious_countries", "geographic_impossible"} = {}

(* C17: when the evaluation of one transaction of a batch or stream fails,
   the run goes on: every later transaction is still evaluated, and the
   failure is kept for the caller instead of ending the run. *)
C17_RunContinues ==
    (ListRun /\ ~ last.interrupted) =>
        /\ ~ RunRaised
        /\ stats.total_transactions
               = last.pre.stats.total_transactions + Len(last.input)

(* C19: a stream that stops after k transactions were fully evaluated leaves
   the engine in the state of evaluating exactly those k in order:
   total_transactions has grown by k and nothing records a transaction that
   was not fully evaluated. *)
C19_StreamConsistent ==
    last.op = "stream_detection" =>
        LET k == last.evaluated IN
        /\ stats.total_transactions = last.pre.stats.total_transactions + k
        /\ \E clocks \in [ 1..k -> Clocks ] :
               EngineState = process_batch(last.pre, SubSeq(last.input, 1, k), clocks).state

(* C20: no counter of the statistics ever decreases across process_batch and
   evaluate_performance runs, and every process_transaction call adds exactly
   one to total_transactions. *)
C20_CountersMonotone ==
    last.op \in {"process_batch", "stream_detection", "evaluate_performance"} =>
        /\ \A c \in {"total_transactions", "anomalous_transactions",
                      "false_positives", "false_negatives"} :
               stats[c] >= last.pre.stats[c]
        /\ \A r \in RuleNames : TriggerCount(stats, r) >= TriggerCount(last.pre.stats, r)
        /\ last.op = "process_batch" =>
               stats.total_transactions
                   = last.pre.stats.total_transactions + last.evaluated
                     + (IF RunRaised THEN 1 ELSE 0)

\* Every verdict the engine has stored or has just returned.
Verdicts ==
    Elements(detected_anomalies) \cup (IF Returned THEN {result} ELSE {})

\* The records of rule rule_name in all of them.
AllRecordsOf(rule_name) ==
    { a \in UNION { Elements(v.anomalies) : v \in Verdicts } : a.rule = rule_name }

(* C22: the severity of an anomaly record depends on the rule id only, and
   for large_amount on the amount: suspicious_countries and
   geographic_impossible records are HIGH, unusual_merchant records CRITICAL,
   rapid_transactions and odd_hours records MEDIUM; no verdict holds a LOW
   record and every anomalous verdict has a risk score of at least 10. *)
C22_SeverityByRule ==
    /\ \A v \in Verdicts :
          /\ \A i \in 1..Len(v.anomalies) :
                LET a == v.anomalies[i] IN
                /\ a.rule \in {"suspicious_countries", "geographic_impossible"}
                       => a.severity = "HIGH"
                /\ a.rule = "unusual_merchant" => a.severity = "CRITICAL"
                /\ a.rule \in {"rapid_transactions", "odd_hours"}
                       => a.severity = "MEDIUM"
                /\ a.severity \in {"MEDIUM", "HIGH", "CRITICAL"}
          /\ v.is_anomalous => v.risk_score >= 100
    /\ \A v, w \in Verdicts :
          v.amount = w.amount =>
              \A a \in RecordsOf(v.anomalies, "large_amount"),
                 b \in RecordsOf(w.anomalies, "large_amount") :
                  v.anomalies[a].severity = w.anomalies[b].severity

\* The engine has stored records of each of the five rules of fixed severity,
\* and has just returned a verdict with the lowest score an anomalous one has.
C22_Witness ==
    /\ Returned
    /\ \A r \in {"rapid_transactions", "odd_hours", "geographic_impossible",
                  "suspicious_countries", "unusual_merchant"} :
           AllRecordsOf(r) # {}
    /\ result.is_anomalous
    /\ result.risk_score = 100

\* The places of an account's transactions in the log of evaluations.
PlacesOf(account) == { i \in 1..Len(log) : log[i].account_id = account }

(* C24: an account has no previous transaction stored until its first
   transaction is evaluated, has one from that evaluation on, no operation
   removes it, and it is always the most recently evaluated transaction of
   that account. *)
C24_HistoryLifecycle ==
    /\ \A a \in Accounts :
          /\ a \in DOMAIN account_history <=> PlacesOf(a) # {}
          /\ PlacesOf(a) # {} => account_history[a] = log[Max(PlacesOf(a))]
    /\ DOMAIN account_history \subseteq Accounts
    /\ "pre" \in DOMAIN last =>
           DOMAIN last.pre.account_history \subseteq DOMAIN account_history

\* One account's previous transaction has been replaced, after a
\* reconfiguration, while another account has none yet.
C24_Witness ==
    /\ Returned
    /\ updates > 0
    /\ "ACC001" \in DOMAIN last.pre.account_history
    /\ result.account_id = "ACC001"
    /\ account_history["ACC001"] # last.pre.account_history["ACC001"]
    /\ "ACC002" \notin DOMAIN account_history

\* What a verdict says of the rules: those triggered, with their reasons.
Findings(verdict) ==
    [ triggered_rules |-> verdict.triggered_rules,
      reasons |-> [ i \in 1..Len(verdict.anomalies) |-> verdict.anomalies[i].reason ] ]

(* C23: evaluating a rule changes no engine state, so evaluate_transaction
   called twice with the same transaction and the same previous transaction
   returns the same triggered rules and reasons both times. *)
C23_RulesPure ==
    /\ last.op = "evaluate_transaction" => EngineState = last.pre
    /\ \A i, j \in 1..Len(ret) : Findings(ret[i]) = Findings(ret[j])

\* The engine as it was when the call that raised began: the calls before it
\* in the list have returned.
BeforeFailedCall ==
    LET returned == SubSeq(last.input, 1, last.evaluated) IN
    process_batch(last.pre, returned,
                  [ i \in 1..Len(returned) |-> Clock(Noon, Noon, Noon, Noon) ]).state

(* C25: when process_transaction raises while evaluating a transaction, the
   engine state is that of before the call: total_transactions and the other
   statistics, the account's previous transaction and the account's trailing
   window are unchanged. *)
C25_RaiseRestoresState ==
    (ListRun /\ RunRaised /\ ~ ReadsClock(last.input)) =>
        /\ stats = BeforeFailedCall.stats
        /\ account_history = BeforeFailedCall.account_history
        /\ transaction_history = BeforeFailedCall.transaction_history

\* The number of anomaly records in a list of verdicts.
RECURSIVE RecordCount(_)
RecordCount(verdicts) ==
    IF verdicts = <<>> THEN 0
    ELSE Len(Head(verdicts).anomalies) + RecordCount(Tail(verdicts))

\* The sum of the per-rule trigger counts.
RECURSIVE TriggerSum(_, _)
TriggerSum(st, names) ==
    IF names = {} THEN 0
    ELSE LET r == CHOOSE x \in names : TRUE
         IN  TriggerCount(st, r) + TriggerSum(st, names \ {r})

(* C27: when no call is in progress, anomalous_transactions is the length of
   detected_anomalies and at most total_transactions, total_transactions is
   the number of process_transaction calls made, the per-rule trigger counts
   sum to the number of anomaly records of all verdicts returned, and each
   rule's count is the number of verdicts that list it. *)
C27_StatisticsConsistent ==
    /\ stats.anomalous_transactions = Len(detected_anomalies)
    /\ stats.anomalous_transactions <= stats.total_transactions
    /\ stats.total_transactions = Len(log)
    /\ TriggerSum(stats, DOMAIN stats.rules_triggered) = RecordCount(detected_anomalies)
    /\ DOMAIN stats.rules_triggered \subseteq DeclaredRules
    /\ \A r \in DeclaredRules :
           TriggerCount(stats, r)
               = Cardinality({ i \in 1..Len(detected_anomalies) :
                                 r \in Elements(detected_anomalies[i].triggered_rules) })
    /\ Returned =>
           (result.is_anomalous <=> detected_anomalies # last.pre.detected_anomalies)

\* Calls have returned clean verdicts and anomalous ones, one of these with
\* several records, around a reconfiguration.
C27_Witness ==
    /\ Returned
    /\ updates > 0
    /\ stats.total_transactions > stats.anomalous_transactions
    /\ stats.anomalous_transactions >= 2
    /\ RecordCount(detected_anomalies) > Len(detected_anomalies)

\* The engine s with nothing kept of the accounts other than account.
Alone(s, account) ==
    [ s EXCEPT
        !.transaction_history =
            [ a \in DOMAIN @ |-> IF a = account THEN @[a] ELSE <<>> ],
        !.account_history =
            [ a \in (DOMAIN @) \cap {account} |-> @[a] ] ]

(* C29: process_transaction for a transaction of account A leaves the
   previous transaction and the trailing window of every other account as
   they were, and its verdict (the rapid_transactions count and the
   geographic_impossible outcome with it) is the one the engine would return
   had it never seen the other accounts. *)
C29_OtherAccountsUntouched ==
    Returned =>
        LET A == last.transaction.account_id IN
        /\ \A B \in Accounts \ {A} :
              /\ transaction_history[B] = last.pre.transaction_history[B]
              /\ B \in DOMAIN account_history <=> B \in DOMAIN last.pre.account_history
              /\ B \in DOMAIN account_history =>
                     account_history[B] = last.pre.account_history[B]
        /\ result = process_transaction(Alone(last.pre, A), last.transaction,
                                        Clock(Noon, Noon, Noon, Noon)).result

\* A verdict with rapid_transactions has been returned for one account while
\* the other has a window and a previous transaction.
C29_Witness ==
    /\ Returned
    /\ \E B \in Accounts \ {last.transaction.account_id} :
          /\ transaction_history[B] # <<>>
          /\ B \in DOMAIN account_history
    /\ "rapid_transactions" \in Elements(result.triggered_rules)

\* The sum of the weights of a verdict's records, before the cap.
UncappedSum(anomalies) ==
    250 * HowMany(anomalies, "CRITICAL") + 175 * HowMany(anomalies, "HIGH")
        + 100 * HowMany(anomalies, "MEDIUM") + 50 * HowMany(anomalies, "LOW")

(* C30: with the default rule configuration a verdict has risk score 100 only
   if all six rules triggered: a verdict with at most five triggered rules
   has a score of at most 95, and the sum before the cap is at most 105. *)
C30_FullScoreNeedsAllRules ==
    (Returned /\ last.pre.rules = DefaultRules) =>
        /\ UncappedSum(result.anomalies) <= 1050
        /\ Len(result.triggered_rules) <= 5 => result.risk_score <= 950
        /\ result.risk_score = 1000 => RuleIds(result.anomalies) = DeclaredRules
        /\ result.risk_score = Min(UncappedSum(result.anomalies), 1000)

\* All six rules have triggered on a transaction, the sum being 105.
C30_Witness ==
    /\ Returned
    /\ last.pre.rules = DefaultRules
    /\ Len(result.triggered_rules) = 6
    /\ UncappedSum(result.anomalies) = 1050
    /\ result.risk_score = 1000

\* The calls that have ended, by a return or by an exception.
Ended == { t \in Threads : pc[t] \in {"done", "raised"} }

\* A call holds the rule-engine lock only inside check_rapid_transactions and,
\* in process_transaction, only while it holds the detector lock; a call that
\* has not begun or has ended holds no lock.
LockOrder ==
    \A t \in Threads :
        /\ engine_lock = t =>
               /\ pc[t] \in {"rapid_window", "rapid_filter", "rapid_assign",
                              "rapid_append", "rapid_compare", "rapid_unlock",
                              "rapid_unwind"}
               /\ loc[t].op = "process_transaction" => detector_lock = t
        /\ detector_lock = t =>
               /\ loc[t].op = "process_transaction"
               /\ pc[t] \notin {"start", "done", "raised"}
        /\ pc[t] \in {"start", "done", "raised"} =>
               (detector_lock # t /\ engine_lock # t)

(* C26: the locks are taken in the order detector lock, rule-engine lock, and
   released on every way out of a call, exceptions included; no interleaving
   of concurrent process_transaction, evaluate_transaction and update_rule
   calls deadlocks: under fair scheduling every call returns or raises in the
   end, both locks being free then, also after a call that raised. *)
C26_LocksNeverDeadlock ==
    /\ [] LockOrder
    /\ <>[] ( /\ Ended = Threads
              /\ detector_lock = NoThread
              /\ engine_lock = NoThread )

\* Every call has ended, one by an exception raised while it held both locks,
\* and a process_transaction call that began after that has returned.
C26_Witness ==
    /\ Ended = Threads
    /\ \E i \in 1..Len(ret) :
          /\ ret[i].raised = "ValueError"
          /\ loc[ret[i].thread].op = "process_transaction"
          /\ \E u \in ret[i].waiting : pc[u] = "done"

(* C28: a statistics snapshot read by get_detailed_report while
   process_transaction calls run is that of some completed evaluations:
   anomalous_transactions is the number of stored verdicts, and the per-rule
   trigger counts sum to the number of anomaly records in them. *)
C28_SnapshotConsistent ==
    result # None =>
        /\ result.summary.anomalies_detected = Len(result.anomalies)
        /\ result.statistics.anomalous_transactions = Len(result.anomalies)
        /\ TriggerSum(result.statistics, DOMAIN result.statistics.rules_triggered)
               = RecordCount(result.anomalies)

\* The rows of the last ground truth that are labelled l and were flagged f
\* when the rows went through process_transaction one after another.
RowsWhere(l, f) ==
    LET verdicts == process_batch(last.pre, last.input, last.clocks).results IN
    { i \in 1..Len(last.input) :
        /\ Get(last.input[i], "is_fraudulent", FALSE) = l
        /\ verdicts[i].is_anomalous = f }

(* C21: evaluate_performance runs every row through process_transaction and
   returns true_positives = rows fraudulent and flagged, false_positives =
   rows not fraudulent and flagged, false_negatives = rows fraudulent and not
   flagged, precision = TP/(TP+FP), recall = TP/(TP+FN), F1 = 2PR/(P+R), each
   0 when its denominator is 0; two true positives and one false positive
   give 2/3, 1 and 4/5. *)
C21_PerformanceFormulas ==
    (last.op = "evaluate_performance" /\ ~ RunRaised) =>
        LET perf == ret.performance
            TP == Cardinality(RowsWhere(TRUE, TRUE))
            FP == Cardinality(RowsWhere(FALSE, TRUE))
            FN == Cardinality(RowsWhere(TRUE, FALSE))
            P  == perf.precision
            R  == perf.recall
            F  == perf.f1_score
            sum == P.num * R.den + R.num * P.den
        IN  /\ perf.true_positives = TP
            /\ perf.false_positives = FP
            /\ perf.false_negatives = FN
            /\ stats.total_transactions
                   = last.pre.stats.total_transactions + Len(last.input)
            /\ P.den > 0 /\ R.den > 0 /\ F.den > 0
            /\ IF TP + FP = 0 THEN P.num = 0 ELSE P.num * (TP + FP) = TP * P.den
            /\ IF TP + FN = 0 THEN R.num = 0 ELSE R.num * (TP + FN) = TP * R.den
            /\ IF sum = 0 THEN F.num = 0
               ELSE F.num * sum = 2 * P.num * R.num * F.den
            /\ (TP = 2 /\ FP = 1 /\ FN = 0) =>
                   /\ P = [num |-> 2, den |-> 3]
                   /\ R = [num |-> 1, den |-> 1]
                   /\ F = [num |-> 4, den |-> 5]

\* A ground truth with two true positives and one false alarm was evaluated,
\* on an engine that had evaluated another before.
C21_Witness ==
    /\ last.op = "evaluate_performance"
    /\ ~ RunRaised
    /\ last.pre.stats.total_transactions > 0
    /\ ret.performance.true_positives = 2
    /\ ret.performance.false_positives = 1
    /\ ret.performance.false_negatives = 0

----------------------------------------------------------------------------
(* Vocabulary of the concurrency properties *)

\* The state after the calls of a list have run one after another.
RECURSIVE SerialRun(_, _)
SerialRun(s, transactions) ==
    IF transactions = <<>> THEN s
    ELSE SerialRun(process_transaction(s, Head(transactions), Clock(Noon, Noon, Noon, Noon)),
                   Tail(transactions))

\* The verdict the k-th call of a list returns when they run one after another.
SerialVerdict(transactions, k) ==
    SerialRun(FreshEngine, SubSeq(transactions, 1, k)).result

AllDone == \A t \in Threads : pc[t] = "done"

\* Every call is for the same account at the same instant.
OneInstant ==
    \A t, u \in Threads :
        /\ loc[t].transaction.account_id = loc[u].transaction.account_id
        /\ loc[t].transaction.timestamp = loc[u].transaction.timestamp

\* The threads inside process_transaction's with block.
InCall == { t \in Threads : pc[t] \notin {"start", "done"} }

\* The calls that have appended their transaction to the window (line 98):
\* rapid_transactions is the second rule of the loop.
Appended ==
    { t \in Threads :
        \/ loc[t].i > 2
        \/ loc[t].i = 2 /\ pc[t] \in {"rapid_compare", "rapid_unlock", "record"} }

(* C4: on a fresh engine with the default rules, for every interleaving of
   N concurrent process_transaction calls for one account at one instant, the
   no update is lost (the window holds one entry per call that has appended),
   the k-th call to complete observed a rapid_transactions count of k; once
   all have completed the window holds N entries and, N being >= threshold,
   the last call reports a count of N. *)
C4_NoLostUpdate ==
    (OneInstant /\ updates = 0) =>
        /\ Len(transaction_history[loc[1].transaction.account_id]) = Cardinality(Appended)
        /\ \A k \in 1..Len(completed) : loc[completed[k]].count = k
        /\ AllDone =>
              LET account   == loc[1].transaction.account_id
                  final     == loc[completed[NThreads]].result
                  threshold == DefaultRules["rapid_transactions"].threshold
                  window    == DefaultRules["rapid_transactions"].time_window
              IN  /\ Len(transaction_history[account]) = NThreads
                  /\ NThreads >= threshold =>
                        \E i \in 1..Len(final.anomalies) :
                            /\ final.anomalies[i].rule = "rapid_transactions"
                            /\ final.anomalies[i].reason = <<NThreads, window>>

\* All calls have completed, the last thread first.
C4_Witness ==
    /\ OneInstant
    /\ updates = 0
    /\ AllDone
    /\ completed[1] = NThreads
    /\ NThreads >= DefaultRules["rapid_transactions"].threshold

(* C5: at most one call is inside process_transaction's critical section
   (between its first statistics/history access and its last), and when
   the concurrent calls have all returned, their verdicts and the final state
   are those of running them one after another in the order they entered. *)
C5_Serializable ==
    /\ Cardinality(InCall) <= 1
    /\ (AllDone /\ updates = 0) =>
          /\ EngineState = [ f \in DOMAIN FreshEngine |-> SerialRun(FreshEngine, log)[f] ]
          /\ \A k \in 1..Len(log) :
                loc[log[k].transaction_id].result = SerialVerdict(log, k)

\* Calls for two accounts have all returned, having entered in an order other
\* than the threads' own, with an anomalous verdict among them.
C5_Witness ==
    /\ AllDone
    /\ updates = 0
    /\ ~ OneInstant
    /\ log[1].transaction_id = NThreads
    /\ detected_anomalies # <<>>

(* C6: an evaluation running concurrently with update_rule uses either the
   complete old or the complete new configuration of a rule: the values it
   read of rapid_transactions' enabled, time_window and threshold are those
   of one configuration the rule set has had. *)
C6_NoTornConfiguration ==
    \A t \in Threads :
        \E v \in Elements(versions) :
            \A f \in DOMAIN loc[t].read :
                v["rapid_transactions"][f] = loc[t].read[f]

====
